---- MODULE Spec2Model ----
(***************************************************************************)
(* State-machine model of the scraping pipelines of src/scraper.py:        *)
(* FacebookScraperPipeline, InstagramScraperPipeline and                   *)
(* TwitterScraperPipeline, together with the command-line drivers that     *)
(* launch the dashboards.  Every external call (an Apify actor run or a    *)
(* classifier invocation) is split into the step that issues it and the    *)
(* step at which it returns, with the outcome chosen by the environment.   *)
(***************************************************************************)
EXTENDS Integers, Sequences, FiniteSets, TLC

\* ---------------------------------------------------------------------
\* Bounds of the model
\* ---------------------------------------------------------------------
\* largest number of items one dataset returns
MaxItems == 2
\* largest number of tweet IDs given to scrape_from_user
MaxTweets == 2
\* largest number of rows of a table, or of texts, handed to an analyzer
MaxTexts == 2

\* ---------------------------------------------------------------------
\* Input domains
\* ---------------------------------------------------------------------
SeqsUpTo(S, n) == UNION {[1..k -> S] : k \in 0..n}

\* items of the Facebook posts dataset, reduced to the fields the rows key on
PostItems ==
    { [post_id |-> "p1", url |-> "u1"],
      [post_id |-> "p1", url |-> ""],
      [post_id |-> "p2", url |-> "u2"] }

\* items of the Facebook comments dataset
CommentItems ==
    { [id |-> "", text |-> "a"],
      [id |-> "c1", text |-> "a"],
      [id |-> "c1", text |-> "b"],
      [id |-> "c2", text |-> "a"] }

TweetIds == {"t1", "t2"}

\* items of the Twitter replies dataset
ReplyItems == { [userName |-> "u1", text |-> "x"] }

\* items of the Twitter retweeters dataset
RetweeterItems == { [userName |-> "u1"] }

\* items of the Instagram profile dataset: with or without a followers count
IgProfileItems == { [followers |-> TRUE], [followers |-> FALSE] }

\* items of the Instagram posts / hashtag dataset; "" is an item without url
\* and without shortcode
IgPostItems == { [url |-> "a"], [url |-> ""] }

\* items of the Instagram comments dataset; "z" is the url of no scraped post
IgCommentItems ==
    { [postUrl |-> "a", text |-> "x"], [postUrl |-> "z", text |-> "y"] }

\* items of the Instagram scraper dataset (scrape_post_urls)
IgUrlItems ==
    { [url |-> "a", latestComments |-> <<>>],
      [url |-> "a", latestComments |-> << "k1" >>],
      [url |-> "a", latestComments |-> << "k1", "k1" >>],
      [url |-> "b", latestComments |-> << "k1", "k2" >>] }

\* the ways an actor run can end
CallOutcomes == {"raise", "none", "nodataset", "iterfail", "ok"}

\* the ways the sentiment step can end
SentimentOutcomes == {"ok", "raise"}

Modes == {"page", "group", "keyword"}

VARIABLES
    platform,       \* platform chosen in the main menu
    pc,             \* position of the running pipeline
    run_idx,        \* index into actor_runs / position in the fetch loop
    n_runs,         \* len(actor_runs)
    outstanding,    \* external calls issued and not yet returned
    calls_made,     \* every actor invocation issued so far, in order
    raised,         \* the scrape operation propagated an exception
    all_posts,      \* all_posts, local to _scrape_posts_with_reactions
    posts,          \* list(unique_posts)
    complete_data,  \* posts with their comments attached
    rows,           \* rows before deduplication
    df,             \* the table after drop_duplicates
    raw_written,    \* raw JSON/CSV written to the preprocessing directory
    csv_written,    \* final CSV written
    csv_writes,     \* to_csv calls on the final CSV path of the scrape
    ig_files,       \* final CSV paths written through the Instagram instance
    final_csv,      \* rows of the final CSV
    sentiment,      \* "none", "ok" or "failed"
    summary,        \* summary statistics file (Facebook)
    result,         \* dictionary returned by the scrape operation
    dashboard,      \* dashboard launched
    tweet_ids,      \* scrape_from_user: tweet_ids
    cur,            \* replies_list of the tweet in progress
    all_data,       \* scrape_from_user: all_data
    ig_op,          \* Instagram scrape operation chosen in the menu
    ig_site,        \* actor step of the operation in progress
    attempt,        \* _run_apify_actor: attempt
    include_comments, \* include_comments argument
    cookies_ok,     \* the cookies file exists and holds cookies
    last_outcome,   \* how the latest actor attempt ended
    last_items,     \* the items the latest actor attempt produced
    actor_ret,      \* value returned by _run_apify_actor
    post_urls,      \* scrape_profile / scrape_keyword: post_urls
    unit_pc,        \* position of the function that is modelled on its own
    entry,          \* caller of the Facebook scrape: "cli", "app" or "direct"
    max_posts_input, \* what the user typed, or the argument of a direct call
    mode_arg,       \* mode argument, with the validity of the group URL
    max_posts,      \* max_posts argument of _scrape_posts_with_reactions
    actor_runs,     \* limit of each run input of actor_runs
    fb_row,         \* a row of the Facebook table before _add_derived_columns
    derived,        \* the derived columns of that row
    analyzer,       \* which analyzer runs: "batch", "facebook", "instagram", "twitter"
    sdf,            \* the table handed to the analyzer
    texts,          \* the texts of the loop in progress
    results,        \* results appended so far by the loop in progress
    invoked,        \* texts self.analyzer was called with in the loop in progress
    label_cols,     \* the label and score columns the analyzer has written
    entry_point,    \* which dashboard entry point runs
    csv_file,       \* csv_file argument: "none", "loadable" or "unloadable"
    latest_file,    \* newest CSV of the final directory, in the same terms
    dashboard_df,   \* dashboard.df is a table (TRUE) or None (FALSE)
    summary_printed, \* print_summary_statistics printed the statistics
    menu_presented, \* the visualization options were printed
    choice,         \* the option read last in the menu loop
    plots,          \* what the latest create_* call produced
    comments_entry, \* caller that chose max_comments: "cli", "app" or "direct"
    max_comments_input, \* what the user typed, or the argument of a direct call
    max_comments,   \* max_comments argument of _scrape_comments
    post_url,       \* post_url argument of _scrape_comments
    comments_request \* run_input sent to the comments actor, if any

\* state of the functions that are modelled on their own
limitvars == << entry, max_posts_input, mode_arg, max_posts, actor_runs >>

derivevars == << fb_row, derived >>

sentvars == << analyzer, sdf, texts, results, invoked, label_cols >>

dashvars == << entry_point, csv_file, latest_file, dashboard_df, summary_printed,
              menu_presented, choice, plots >>

commentvars == << comments_entry, max_comments_input, max_comments, post_url,
                 comments_request >>

unitvars == << unit_pc, limitvars, derivevars, sentvars, dashvars, commentvars >>

vars == << platform, pc, run_idx, n_runs, outstanding, calls_made,
           raised, all_posts, posts, complete_data, rows, df, raw_written,
           csv_written, csv_writes, ig_files, final_csv, sentiment, summary, result, dashboard,
           tweet_ids, cur, all_data, ig_op, ig_site, attempt,
           include_comments, cookies_ok, last_outcome, last_items, actor_ret,
           post_urls, unitvars >>

igvars == << ig_op, ig_site, attempt, include_comments, cookies_ok,
             last_outcome, last_items, actor_ret, post_urls >>

twvars == << tweet_ids, cur, all_data >>

NoResult == [returned |-> FALSE]
NoSummary == [written |-> FALSE]
\* no replies_list yet for the tweet in progress
NoCur == [replies |-> <<>>]

\* ---------------------------------------------------------------------
\* External calls
\* ---------------------------------------------------------------------
\* a call is issued: it is outstanding until it returns
Issue(site) == outstanding \cup {site}

\* the call is started without waiting for it to finish
CompleteNoWait(site) == outstanding

\* the blocking call returned (or raised) at the caller
Complete(site) == outstanding \ {site}

\* ---------------------------------------------------------------------
\* Facebook helpers
\* ---------------------------------------------------------------------
\* _scrape_posts_with_reactions: dataset item -> post dictionary
PostOfItem(item) ==
    [post_id |-> item.post_id, url |-> item.url, comments |-> <<>>]

\* _scrape_comments: dataset item -> comment dictionary
CommentOfItem(item) == [comment_id |-> item.id, text |-> item.text]

\* an insertion that leaves the value of an existing key as it is
DictPutKeepFirst(d, p) ==
    IF \E i \in 1..Len(d) : d[i].post_id = p.post_id
    THEN d
    ELSE Append(d, p)

\* one insertion into the dictionary {p["post_id"]: p ...}: an existing key
\* keeps its position and takes the new value, a new key is appended
DictPut(d, p) ==
    IF \E i \in 1..Len(d) : d[i].post_id = p.post_id
    THEN [i \in 1..Len(d) |-> IF d[i].post_id = p.post_id THEN p ELSE d[i]]
    ELSE Append(d, p)

RECURSIVE UniquePosts(_)
\* list({p["post_id"]: p for p in all_posts}.values())
UniquePosts(s) ==
    IF s = <<>> THEN <<>>
    ELSE DictPut(UniquePosts(SubSeq(s, 1, Len(s) - 1)), s[Len(s)])

\* _empty_comment
EmptyComment == [comment_id |-> "", text |-> ""]

\* {**_flatten_post(post), **_flatten_comment(comment)}
FlattenRow(post, comment) ==
    [post_id |-> post.post_id, post_url |-> post.url,
     comment_id |-> comment.comment_id, comment_text |-> comment.text]

\* the row loop without its else branch: a post without comments is skipped
PostRowsSkipEmpty(post) ==
    [i \in 1..Len(post.comments) |-> FlattenRow(post, post.comments[i])]

\* rows contributed by one post
PostRows(post) ==
    IF post.comments # <<>>
    THEN [i \in 1..Len(post.comments) |-> FlattenRow(post, post.comments[i])]
    ELSE << FlattenRow(post, EmptyComment) >>

RECURSIVE FlattenRows(_)
\* the row-building loop of _process_and_save_final / _save_raw_data
FlattenRows(data) ==
    IF data = <<>> THEN <<>>
    ELSE FlattenRows(SubSeq(data, 1, Len(data) - 1)) \o PostRows(data[Len(data)])

FacebookKey(r) == << r.post_id, r.comment_id >>

RECURSIVE DropDuplicatesKeepLast(_)
\* drop_duplicates with keep="last" in place of keep="first"
DropDuplicatesKeepLast(s) ==
    IF s = <<>> THEN <<>>
    ELSE LET rest == DropDuplicatesKeepLast(Tail(s))
         IN  IF \E i \in 1..Len(rest) : FacebookKey(rest[i]) = FacebookKey(s[1])
             THEN rest
             ELSE << s[1] >> \o rest

RECURSIVE DropDuplicatesFacebook(_)
\* df.drop_duplicates(subset=["post_id", "comment_id"], keep="first")
DropDuplicatesFacebook(s) ==
    IF s = <<>> THEN <<>>
    ELSE LET init == DropDuplicatesFacebook(SubSeq(s, 1, Len(s) - 1))
             last == s[Len(s)]
         IN  IF \E i \in 1..Len(init) : FacebookKey(init[i]) = FacebookKey(last)
             THEN init
             ELSE Append(init, last)

RECURSIVE SumSeq(_)
SumSeq(s) == IF s = <<>> THEN 0 ELSE s[1] + SumSeq(Tail(s))

\* total_comments = sum(len(p.get("comments", [])) for p in complete_data)
TotalComments(data) == SumSeq([i \in 1..Len(data) |-> Len(data[i].comments)])

\* df["post_id"].nunique()
NUniquePosts(t) == Cardinality({t[i].post_id : i \in 1..Len(t)})

\* df["comment_id"].ne("").sum()
NComments(t) == Cardinality({i \in 1..Len(t) : t[i].comment_id # ""})

\* estimated_cost = post_cost + comment_cost + actor_starts_cost, in
\* millionths of a dollar: 9.99 (12.50 for a group) per 1000 posts, 2.50 per
\* 1000 comments and 0.006 per actor start
EstimatedCost(data, group) ==
    Len(data) * (IF group THEN 12500 ELSE 9990)
    + TotalComments(data) * 2500
    + (Len(data) + 1) * 6000

EmptyFacebookResult ==
    [returned |-> TRUE, raw_file |-> FALSE, final_file |-> FALSE,
     posts |-> 0, comments |-> 0, cost |-> 0]

\* ---------------------------------------------------------------------
\* Initial state: the main menu, nothing scraped
\* ---------------------------------------------------------------------
PipelineIdle ==
    /\ platform = "none"
    /\ pc = "menu"
    /\ run_idx = 1
    /\ n_runs = 0
    /\ outstanding = {}
    /\ calls_made = <<>>
    /\ raised = FALSE
    /\ all_posts = <<>>
    /\ posts = <<>>
    /\ complete_data = <<>>
    /\ rows = <<>>
    /\ df = <<>>
    /\ raw_written = FALSE
    /\ csv_written = FALSE
    /\ csv_writes = 0
    /\ ig_files = {}
    /\ final_csv = <<>>
    /\ sentiment = "none"
    /\ summary = NoSummary
    /\ result = NoResult
    /\ dashboard = FALSE
    /\ tweet_ids = <<>>
    /\ cur = NoCur
    /\ all_data = <<>>
    /\ ig_op = "none"
    /\ ig_site = "none"
    /\ attempt = 1
    /\ include_comments = FALSE
    /\ cookies_ok = FALSE
    /\ last_outcome = "none"
    /\ last_items = <<>>
    /\ actor_ret = <<>>
    /\ post_urls = <<>>

\* no function modelled on its own is in progress
NoInt == [kind |-> "none", val |-> 0]

LimitIdle ==
    /\ entry = "none"
    /\ max_posts_input = NoInt
    /\ mode_arg = [mode |-> "page", group_url_ok |-> TRUE]
    /\ max_posts = NoInt
    /\ actor_runs = <<>>

NoRow == [present |-> FALSE]

DeriveIdle ==
    /\ fb_row = NoRow
    /\ derived = NoRow

NoColumns == [first |-> <<>>, second |-> <<>>]

SentimentIdle ==
    /\ analyzer = "none"
    /\ sdf = <<>>
    /\ texts = <<>>
    /\ results = <<>>
    /\ invoked = <<>>
    /\ label_cols = NoColumns

DashboardIdle ==
    /\ entry_point = "none"
    /\ csv_file = "none"
    /\ latest_file = "none"
    /\ dashboard_df = FALSE
    /\ summary_printed = FALSE
    /\ menu_presented = FALSE
    /\ choice = "none"
    /\ plots = "none"

NoRequest == [sent |-> FALSE]

CommentsIdle ==
    /\ comments_entry = "none"
    /\ max_comments_input = NoInt
    /\ max_comments = NoInt
    /\ post_url = ""
    /\ comments_request = NoRequest

UnitsIdle ==
    /\ unit_pc = "idle"
    /\ LimitIdle
    /\ DeriveIdle
    /\ SentimentIdle
    /\ DashboardIdle
    /\ CommentsIdle

Init == PipelineIdle /\ UnitsIdle

\* ---------------------------------------------------------------------
\* Facebook: scrape_from_url
\* ---------------------------------------------------------------------
\* run_facebook_scraper -> scrape_from_url -> _scrape_posts_with_reactions up
\* to the construction of actor_runs; an invalid group URL returns [] at once
FBStart ==
    /\ pc = "menu"
    /\ platform' = "facebook"
    /\ \E m \in Modes, group_url_ok \in BOOLEAN :
        IF m = "group" /\ ~group_url_ok
        THEN /\ n_runs' = 0
             /\ result' = EmptyFacebookResult
             /\ pc' = "fb_cli"
        ELSE /\ n_runs' = IF m = "group" THEN 1 ELSE 2
             /\ result' = result
             /\ pc' = "fb_posts"
    /\ run_idx' = 1
    /\ UNCHANGED << outstanding, calls_made, raised, all_posts, posts,
                    complete_data, rows, df, raw_written, csv_written, csv_writes,
                    final_csv, sentiment, summary, dashboard,
                    twvars >>
    /\ UNCHANGED << igvars, ig_files, unitvars >>

\* a run input whose call raised is tried a second time
NextRunRetryOnce(outcome, i) ==
    IF /\ outcome = "raise"
       /\ Cardinality({k \in 1..Len(calls_made) :
                          calls_made[k] = << "fb_posts", i >>}) < 2
    THEN i
    ELSE i + 1

\* "for run_input in actor_runs": a failed run is logged and "continue" moves on
\* to the next run input
NextRun(outcome, i) == i + 1

\* self.client.actor(actor_id).call(run_input=run_input) for one run input
FBPostsCall ==
    /\ pc = "fb_posts"
    /\ outstanding' = Issue(<< "fb_posts", run_idx >>)
    /\ calls_made' = Append(calls_made, << "fb_posts", run_idx >>)
    /\ pc' = "fb_posts_wait"
    /\ UNCHANGED << platform, run_idx, n_runs, raised, all_posts, posts,
                    complete_data, rows, df, raw_written, csv_written, csv_writes,
                    final_csv, sentiment, summary, result, dashboard,
                    twvars >>
    /\ UNCHANGED << igvars, ig_files, unitvars >>

\* the posts run ends and the empty list of posts is not tested: the
\* operation goes on to the comments loop, which has nothing to do, and saves
FBPostsReturnNoEmptyTest ==
    /\ pc = "fb_posts_wait"
    /\ outstanding' = Complete(<< "fb_posts", run_idx >>)
    /\ \E outcome \in CallOutcomes, items \in SeqsUpTo(PostItems, MaxItems) :
        LET got == IF outcome \in {"ok", "iterfail"}
                   THEN all_posts \o [i \in 1..Len(items) |-> PostOfItem(items[i])]
                   ELSE all_posts
            uniq == UniquePosts(got)
        IN  /\ IF NextRun(outcome, run_idx) <= n_runs
               THEN /\ run_idx' = NextRun(outcome, run_idx)
                    /\ all_posts' = got
                    /\ pc' = "fb_posts"
                    /\ UNCHANGED << posts, result >>
               ELSE /\ run_idx' = 1
                    /\ all_posts' = <<>>
                    /\ posts' = uniq
                    /\ result' = result
                    /\ pc' = IF uniq = <<>> THEN "fb_save" ELSE "fb_comments"
    /\ UNCHANGED << platform, n_runs, calls_made, raised, complete_data,
                    rows, df, raw_written, csv_written, csv_writes, final_csv, sentiment,
                    summary, dashboard,
                    twvars >>
    /\ UNCHANGED << igvars, ig_files, unitvars >>

\* the posts run ends; after the last run input the posts are made unique
FBPostsReturn ==
    /\ pc = "fb_posts_wait"
    /\ outstanding' = Complete(<< "fb_posts", run_idx >>)
    /\ \E outcome \in CallOutcomes, items \in SeqsUpTo(PostItems, MaxItems) :
        LET got == IF outcome \in {"ok", "iterfail"}
                   THEN all_posts \o [i \in 1..Len(items) |-> PostOfItem(items[i])]
                   ELSE all_posts
            uniq == UniquePosts(got)
        IN  /\ IF NextRun(outcome, run_idx) <= n_runs
               THEN /\ run_idx' = NextRun(outcome, run_idx)
                    /\ all_posts' = got
                    /\ pc' = "fb_posts"
                    /\ UNCHANGED << posts, result >>
               ELSE /\ run_idx' = 1
                    /\ all_posts' = <<>>
                    /\ posts' = uniq
                    /\ IF uniq = <<>>
                       THEN /\ result' = EmptyFacebookResult
                            /\ pc' = "fb_cli"
                       ELSE /\ result' = result
                            /\ pc' = "fb_comments"
    /\ UNCHANGED << platform, n_runs, calls_made, raised, complete_data,
                    rows, df, raw_written, csv_written, csv_writes, final_csv, sentiment,
                    summary, dashboard,
                    twvars >>
    /\ UNCHANGED << igvars, ig_files, unitvars >>

\* position after the comments of post run_idx have been attached
AfterComments(comments) ==
    /\ complete_data' = Append(complete_data,
                               [posts[run_idx] EXCEPT !.comments = comments])
    /\ IF run_idx < Len(posts)
       THEN /\ run_idx' = run_idx + 1
            /\ pc' = "fb_comments"
       ELSE /\ run_idx' = 1
            /\ pc' = "fb_save"

\* _scrape_comments with an empty post URL: returns [] without any call
FBCommentsSkip ==
    /\ pc = "fb_comments"
    /\ posts[run_idx].url = ""
    /\ AfterComments(<<>>)
    /\ UNCHANGED << platform, n_runs, outstanding, calls_made, raised,
                    all_posts, posts, rows, df, raw_written, csv_written, csv_writes,
                    final_csv, sentiment, summary, result, dashboard,
                    twvars >>
    /\ UNCHANGED << igvars, ig_files, unitvars >>

\* _scrape_comments: the comments actor is called for the post
FBCommentsCall ==
    /\ pc = "fb_comments"
    /\ posts[run_idx].url # ""
    /\ outstanding' = Issue(<< "fb_comments", run_idx >>)
    /\ calls_made' = Append(calls_made, << "fb_comments", run_idx >>)
    /\ pc' = "fb_comments_wait"
    /\ UNCHANGED << platform, run_idx, n_runs, raised, all_posts, posts,
                    complete_data, rows, df, raw_written, csv_written, csv_writes,
                    final_csv, sentiment, summary, result, dashboard,
                    twvars >>
    /\ UNCHANGED << igvars, ig_files, unitvars >>

\* _scrape_comments: the run ends; every failure yields []
FBCommentsReturn ==
    /\ pc = "fb_comments_wait"
    /\ outstanding' = Complete(<< "fb_comments", run_idx >>)
    /\ \E outcome \in CallOutcomes, items \in SeqsUpTo(CommentItems, MaxItems) :
        AfterComments(IF outcome = "ok" THEN [i \in 1..Len(items) |-> CommentOfItem(items[i])]
                      ELSE <<>>)
    /\ UNCHANGED << platform, n_runs, calls_made, raised, all_posts,
                    posts, rows, df, raw_written, csv_written, csv_writes, final_csv,
                    sentiment, summary, result, dashboard,
                    twvars >>
    /\ UNCHANGED << igvars, ig_files, unitvars >>

\* _save_raw_data, then _process_and_save_final up to the sentiment trigger:
\* flatten, clean, drop_duplicates
FBSaveAndBuild ==
    /\ pc = "fb_save"
    /\ raw_written' = TRUE
    /\ rows' = FlattenRows(complete_data)
    /\ df' = DropDuplicatesFacebook(FlattenRows(complete_data))
    /\ pc' = "fb_sentiment"
    /\ UNCHANGED << platform, run_idx, n_runs, outstanding, calls_made,
                    raised, all_posts, posts, complete_data, csv_written, csv_writes,
                    final_csv, sentiment, summary, result, dashboard,
                    twvars >>
    /\ UNCHANGED << igvars, ig_files, unitvars >>

\* SentimentAnalyzer().analyze_posts_and_comments(df) is entered
FBSentimentCall ==
    /\ pc = "fb_sentiment"
    /\ outstanding' = Issue(<< "classifier", 1 >>)
    /\ pc' = "fb_sentiment_wait"
    /\ UNCHANGED << platform, run_idx, n_runs, calls_made, raised,
                    all_posts, posts, complete_data, rows, df, raw_written,
                    csv_written, csv_writes, final_csv, sentiment, summary, result,
                    dashboard,
                    twvars >>
    /\ UNCHANGED << igvars, ig_files, unitvars >>

\* the failure of the sentiment step is not caught where it happens: it
\* reaches the outer handler of _process_and_save_final, which returns None
FBSentimentReturnUncaught ==
    /\ pc = "fb_sentiment_wait"
    /\ outstanding' = Complete(<< "classifier", 1 >>)
    /\ \E outcome \in SentimentOutcomes :
        IF outcome = "ok"
        THEN /\ sentiment' = "ok"
             /\ pc' = "fb_write"
             /\ result' = result
        ELSE /\ sentiment' = "failed"
             /\ pc' = "fb_cli"
             /\ result' = [returned |-> TRUE, raw_file |-> TRUE,
                           final_file |-> FALSE,
                           posts |-> Len(complete_data),
                           comments |-> TotalComments(complete_data),
                           cost |-> EstimatedCost(complete_data, n_runs = 1)]
    /\ UNCHANGED << platform, run_idx, n_runs, calls_made, raised,
                    all_posts, posts, complete_data, rows, df, raw_written,
                    csv_written, csv_writes, final_csv, summary, dashboard,
                    twvars >>
    /\ UNCHANGED << igvars, ig_files, unitvars >>

\* the sentiment step returns or raises; a failure is caught and df is kept
FBSentimentReturn ==
    /\ pc = "fb_sentiment_wait"
    /\ outstanding' = Complete(<< "classifier", 1 >>)
    /\ \E outcome \in SentimentOutcomes :
        sentiment' = IF outcome = "ok" THEN "ok" ELSE "failed"
    /\ pc' = "fb_write"
    /\ UNCHANGED << platform, run_idx, n_runs, calls_made, raised,
                    all_posts, posts, complete_data, rows, df, raw_written,
                    csv_written, csv_writes, final_csv, summary, result, dashboard,
                    twvars >>
    /\ UNCHANGED << igvars, ig_files, unitvars >>

\* the final CSV written ahead of the sentiment step
FBWriteCsvEarly ==
    /\ pc = "fb_sentiment"
    /\ final_csv' = df
    /\ csv_written' = TRUE
    /\ csv_writes' = csv_writes + 1
    /\ pc' = "fb_summary"
    /\ UNCHANGED << platform, run_idx, n_runs, outstanding, calls_made,
                    raised, all_posts, posts, complete_data, rows, df,
                    raw_written, sentiment, summary, result, dashboard,
                    twvars, igvars, ig_files, unitvars >>

\* df.to_csv(final_csv)
FBWriteCsv ==
    /\ pc = "fb_write"
    /\ final_csv' = df
    /\ csv_written' = TRUE
    /\ csv_writes' = csv_writes + 1
    /\ pc' = "fb_summary"
    /\ UNCHANGED << platform, run_idx, n_runs, outstanding, calls_made,
                    raised, all_posts, posts, complete_data, rows, df,
                    raw_written, sentiment, summary, result, dashboard,
                    twvars >>
    /\ UNCHANGED << igvars, ig_files, unitvars >>

\* _save_summary_stats, then the return of scrape_from_url
FBSummaryAndReturn ==
    /\ pc = "fb_summary"
    /\ summary' = [written |-> TRUE, total_rows |-> Len(df),
                   unique_posts |-> NUniquePosts(df),
                   total_comments |-> NComments(df)]
    /\ result' = [returned |-> TRUE, raw_file |-> TRUE, final_file |-> TRUE,
                  posts |-> Len(complete_data),
                  comments |-> TotalComments(complete_data),
                  cost |-> EstimatedCost(complete_data, n_runs = 1)]
    /\ pc' = "fb_cli"
    /\ UNCHANGED << platform, run_idx, n_runs, outstanding, calls_made,
                    raised, all_posts, posts, complete_data, rows, df,
                    raw_written, csv_written, csv_writes, final_csv, sentiment, dashboard,
                    twvars >>
    /\ UNCHANGED << igvars, ig_files, unitvars >>

\* run_facebook_scraper after scrape_from_url: the dashboard prompt
FBDashboard ==
    /\ pc = "fb_cli"
    /\ \E yes \in BOOLEAN : dashboard' = (result.final_file /\ yes)
    /\ pc' = "done"
    /\ UNCHANGED << platform, run_idx, n_runs, outstanding, calls_made,
                    raised, all_posts, posts, complete_data, rows, df,
                    raw_written, csv_written, csv_writes, final_csv, sentiment, summary,
                    result,
                    twvars >>
    /\ UNCHANGED << igvars, ig_files, unitvars >>

\* app.py, Facebook branch, after scrape_from_url returned posts and a final
\* file: the CSV is read back and SentimentAnalyzer is entered once more
FBAppSentimentCall ==
    /\ pc = "fb_cli"
    /\ result.posts # 0
    /\ result.final_file
    /\ outstanding' = Issue(<< "classifier", 2 >>)
    /\ pc' = "fb_app_wait"
    /\ UNCHANGED << platform, run_idx, n_runs, calls_made, raised,
                    all_posts, posts, complete_data, rows, df, raw_written,
                    csv_written, csv_writes, final_csv, sentiment, summary,
                    result, dashboard, twvars >>
    /\ UNCHANGED << igvars, ig_files, unitvars >>

\* app.py, Facebook branch: the analysis returns and df.to_csv(df_path) writes
\* the table, same rows, over the final CSV; an exception is caught by the
\* form and shown, and nothing is written
FBAppSentimentReturn ==
    /\ pc = "fb_app_wait"
    /\ outstanding' = Complete(<< "classifier", 2 >>)
    /\ \E outcome \in SentimentOutcomes :
        IF outcome = "ok"
        THEN /\ final_csv' = final_csv
             /\ csv_writes' = csv_writes + 1
        ELSE UNCHANGED << final_csv, csv_writes >>
    /\ pc' = "done"
    /\ UNCHANGED << platform, run_idx, n_runs, calls_made, raised,
                    all_posts, posts, complete_data, rows, df, raw_written,
                    csv_written, sentiment, summary, result, dashboard,
                    twvars >>
    /\ UNCHANGED << igvars, ig_files, unitvars >>

\* ---------------------------------------------------------------------
\* Twitter: scrape_from_user
\* ---------------------------------------------------------------------
fbvars == << n_runs, all_posts, posts, complete_data, summary >>

\* _scrape_replies: dataset item -> reply dictionary
ReplyOfItem(r) == [author_username |-> r.userName, text |-> r.text]

\* _scrape_retweeters: dataset item -> retweeter dictionary
RetweeterOfItem(r) == [userName |-> r.userName]

\* _scrape_replies: replies_list
RepliesList(items) == [i \in 1..Len(items) |-> ReplyOfItem(items[i])]

\* _scrape_retweeters: retweets_list
RetweetsList(items) == [i \in 1..Len(items) |-> RetweeterOfItem(items[i])]

\* _process_and_save_final: the first reply is taken as the main tweet and
\* leaves the list (replies_list = replies_list[1:])
RepliesAfterMain(t) == IF t.replies # <<>> THEN Tail(t.replies) ELSE <<>>

ReplyRow(t, r) ==
    [tweet_id |-> t.tweet_id, interaction_type |-> "reply",
     username |-> r.author_username, text |-> r.text]

RetweeterRow(t, r) ==
    [tweet_id |-> t.tweet_id, interaction_type |-> "retweeter",
     username |-> r.userName, text |-> ""]

\* rows contributed by one tweet: its replies, then its retweeters
TweetRows(t) ==
    [i \in 1..Len(RepliesAfterMain(t)) |-> ReplyRow(t, RepliesAfterMain(t)[i])]
    \o [i \in 1..Len(t.retweeters) |-> RetweeterRow(t, t.retweeters[i])]

RECURSIVE TwitterRows(_)
\* the row-building loop of TwitterScraperPipeline._process_and_save_final
TwitterRows(data) ==
    IF data = <<>> THEN <<>>
    ELSE TwitterRows(SubSeq(data, 1, Len(data) - 1)) \o TweetRows(data[Len(data)])

\* total_replies = sum(len(t.get("replies", [])) for t in all_data)
TotalReplies(data) == SumSeq([i \in 1..Len(data) |-> Len(data[i].replies)])

\* total_retweeters = sum(len(t.get("retweeters", [])) for t in all_data)
TotalRetweeters(data) ==
    SumSeq([i \in 1..Len(data) |-> Len(data[i].retweeters)])

\* len(df[df["interaction_type"] == kind])
NRowsOfType(t, kind) ==
    Cardinality({i \in 1..Len(t) : t[i].interaction_type = kind})

EmptyTwitterResult ==
    [returned |-> TRUE, raw_file |-> FALSE, final_file |-> FALSE,
     tweets |-> 0, replies |-> 0, retweeters |-> 0]

\* _run_actor_and_get_items: the items the helper returns for an outcome that
\* does not raise; run.get on a None run raises AttributeError outside any try
ActorItems(outcome, items) == IF outcome = "ok" THEN items ELSE <<>>

ActorRaises(outcome) == outcome = "none"

\* run_twitter_scraper -> scrape_from_user up to the validation of tweet_ids
TWStart ==
    /\ pc = "menu"
    /\ platform' = "twitter"
    /\ \E ids \in SeqsUpTo(TweetIds, MaxTweets) :
        /\ tweet_ids' = ids
        /\ IF ids = <<>>
           THEN /\ result' = EmptyTwitterResult
                /\ pc' = "tw_cli"
           ELSE /\ result' = result
                /\ pc' = "tw_profile"
    /\ run_idx' = 1
    /\ UNCHANGED << outstanding, calls_made, raised, rows, df, raw_written,
                    csv_written, csv_writes, final_csv, sentiment, dashboard, cur,
                    all_data, fbvars >>
    /\ UNCHANGED << igvars, ig_files, unitvars >>

\* an actor call of the current tweet is issued
TWIssue(at, site, wait) ==
    /\ pc = at
    /\ outstanding' = Issue(<< site, run_idx >>)
    /\ calls_made' = Append(calls_made, << site, run_idx >>)
    /\ pc' = wait
    /\ UNCHANGED << platform, run_idx, raised, rows, df, raw_written,
                    csv_written, csv_writes, final_csv, sentiment, result, dashboard,
                    twvars, fbvars >>
    /\ UNCHANGED << igvars, ig_files, unitvars >>

\* the exception of _run_actor_and_get_items leaves scrape_from_user and is
\* caught by run_twitter_scraper, which prints it
TWAbort ==
    /\ raised' = TRUE
    /\ pc' = "done"
    /\ UNCHANGED << run_idx, cur, all_data >>

\* _fetch_profile_info: the profile actor is called
TWProfileCall == TWIssue("tw_profile", "tw_profile", "tw_profile_wait")

\* _fetch_profile_info: the profile run ends; profile_info only feeds the
\* profile columns of the rows, which the rows of the model leave out
TWProfileReturn ==
    /\ pc = "tw_profile_wait"
    /\ outstanding' = Complete(<< "tw_profile", run_idx >>)
    /\ \E outcome \in CallOutcomes :
        IF ActorRaises(outcome)
        THEN TWAbort
        ELSE /\ pc' = "tw_replies"
             /\ UNCHANGED << raised, run_idx, cur, all_data >>
    /\ UNCHANGED << platform, calls_made, rows, df, raw_written, csv_written, csv_writes,
                    final_csv, sentiment, result, dashboard, tweet_ids,
                    fbvars >>
    /\ UNCHANGED << igvars, ig_files, unitvars >>

\* _scrape_replies: the replies actor is called
TWRepliesCall == TWIssue("tw_replies", "tw_replies", "tw_replies_wait")

\* _scrape_replies: the replies run ends
TWRepliesReturn ==
    /\ pc = "tw_replies_wait"
    /\ outstanding' = Complete(<< "tw_replies", run_idx >>)
    /\ \E outcome \in CallOutcomes, items \in SeqsUpTo(ReplyItems, MaxItems) :
        IF ActorRaises(outcome)
        THEN TWAbort
        ELSE /\ cur' = [cur EXCEPT !.replies =
                            RepliesList(ActorItems(outcome, items))]
             /\ pc' = "tw_retweeters"
             /\ UNCHANGED << raised, run_idx, all_data >>
    /\ UNCHANGED << platform, calls_made, rows, df, raw_written, csv_written, csv_writes,
                    final_csv, sentiment, result, dashboard, tweet_ids,
                    fbvars >>
    /\ UNCHANGED << igvars, ig_files, unitvars >>

\* _scrape_retweeters: the retweeters actor is called
TWRetweetersCall ==
    TWIssue("tw_retweeters", "tw_retweeters", "tw_retweeters_wait")

\* _scrape_retweeters: the run ends and the tweet is appended to all_data
TWRetweetersReturn ==
    /\ pc = "tw_retweeters_wait"
    /\ outstanding' = Complete(<< "tw_retweeters", run_idx >>)
    /\ \E outcome \in CallOutcomes,
          items \in SeqsUpTo(RetweeterItems, MaxItems) :
        IF ActorRaises(outcome)
        THEN TWAbort
        ELSE /\ all_data' = Append(all_data,
                    [tweet_id |-> tweet_ids[run_idx],
                     replies |-> cur.replies,
                     retweeters |-> RetweetsList(ActorItems(outcome, items))])
             /\ cur' = NoCur
             /\ raised' = raised
             /\ IF run_idx < Len(tweet_ids)
                THEN /\ run_idx' = run_idx + 1
                     /\ pc' = "tw_profile"
                ELSE /\ run_idx' = 1
                     /\ pc' = "tw_save"
    /\ UNCHANGED << platform, calls_made, rows, df, raw_written, csv_written, csv_writes,
                    final_csv, sentiment, result, dashboard, tweet_ids,
                    fbvars >>
    /\ UNCHANGED << igvars, ig_files, unitvars >>

\* the dictionary scrape_from_user returns
TwitterResult(final_file) ==
    [returned |-> TRUE, raw_file |-> TRUE, final_file |-> final_file,
     tweets |-> Len(all_data), replies |-> TotalReplies(all_data),
     retweeters |-> TotalRetweeters(all_data)]

\* _save_raw_data, then the row building of _process_and_save_final; without
\* rows it returns None and scrape_from_user returns
TWSaveAndBuild ==
    /\ pc = "tw_save"
    /\ raw_written' = TRUE
    /\ rows' = TwitterRows(all_data)
    /\ df' = TwitterRows(all_data)
    /\ IF TwitterRows(all_data) = <<>>
       THEN /\ result' = TwitterResult(FALSE)
            /\ pc' = "tw_cli"
       ELSE /\ result' = result
            /\ pc' = "tw_sentiment"
    /\ UNCHANGED << platform, run_idx, outstanding, calls_made, raised,
                    csv_written, csv_writes, final_csv, sentiment, dashboard, twvars,
                    fbvars >>
    /\ UNCHANGED << igvars, ig_files, unitvars >>

\* _apply_sentiment_analysis: TwitterSentimentAnalyzer is entered
TWSentimentCall ==
    /\ pc = "tw_sentiment"
    /\ outstanding' = Issue(<< "classifier", 1 >>)
    /\ pc' = "tw_sentiment_wait"
    /\ UNCHANGED << platform, run_idx, calls_made, raised, rows, df,
                    raw_written, csv_written, csv_writes, final_csv, sentiment, result,
                    dashboard, twvars, fbvars >>
    /\ UNCHANGED << igvars, ig_files, unitvars >>

\* _apply_sentiment_analysis returns; a failure is caught and df is kept
TWSentimentReturn ==
    /\ pc = "tw_sentiment_wait"
    /\ outstanding' = Complete(<< "classifier", 1 >>)
    /\ \E outcome \in SentimentOutcomes :
        sentiment' = IF outcome = "ok" THEN "ok" ELSE "failed"
    /\ pc' = "tw_write"
    /\ UNCHANGED << platform, run_idx, calls_made, raised, rows, df,
                    raw_written, csv_written, csv_writes, final_csv, result, dashboard,
                    twvars, fbvars >>
    /\ UNCHANGED << igvars, ig_files, unitvars >>

\* the final JSON and CSV are written and scrape_from_user returns
TWWriteAndReturn ==
    /\ pc = "tw_write"
    /\ final_csv' = df
    /\ csv_written' = TRUE
    /\ csv_writes' = csv_writes + 1
    /\ result' = TwitterResult(TRUE)
    /\ pc' = "tw_cli"
    /\ UNCHANGED << platform, run_idx, outstanding, calls_made, raised, rows,
                    df, raw_written, sentiment, dashboard, twvars, fbvars >>
    /\ UNCHANGED << igvars, ig_files, unitvars >>

\* run_twitter_scraper after scrape_from_user: the dashboard prompt
TWDashboard ==
    /\ pc = "tw_cli"
    /\ \E yes \in BOOLEAN : dashboard' = (result.final_file /\ yes)
    /\ pc' = "done"
    /\ UNCHANGED << platform, run_idx, outstanding, calls_made, raised, rows,
                    df, raw_written, csv_written, csv_writes, final_csv, sentiment,
                    result, twvars, fbvars >>
    /\ UNCHANGED << igvars, ig_files, unitvars >>

\* ---------------------------------------------------------------------
\* Instagram: run_instagram_scraper, scrape_profile, scrape_keyword,
\* scrape_post_urls, save_final_data
\* ---------------------------------------------------------------------
\* _run_apify_actor: attempts = 3
Attempts == 3

\* a missing value (Python None) in a row
None == "<None>"

IgOps == {"profile", "keyword", "post_urls"}

\* InstagramScraperPipeline.__init__: self.timestamp is taken once, when the
\* instance is constructed
InstanceTimestamp == "T0"

\* name_prefix handed to save_final_data for the target the user names
NamePrefix(op) ==
    CASE op = "profile" -> "profile_u"
      [] op = "keyword" -> "keyword_k"
      [] op = "post_urls" -> "post_urls"

\* save_final_data: self.final_dir / f"{name_prefix}_{self.timestamp}.csv"
FinalPath(op) == << NamePrefix(op), InstanceTimestamp >>

\* the first actor step of each operation
FirstSite(op) ==
    CASE op = "profile" -> "profile"
      [] op = "keyword" -> "hashtag"
      [] op = "post_urls" -> "post_urls"

\* what the dataset of an actor step can hold
IgItemsOf(site) ==
    CASE site = "profile" -> SeqsUpTo(IgProfileItems, MaxItems)
      [] site \in {"posts", "hashtag"} -> SeqsUpTo(IgPostItems, MaxItems)
      [] site = "comments" -> SeqsUpTo(IgCommentItems, MaxItems)
      [] site = "post_urls" -> SeqsUpTo(IgUrlItems, MaxItems)

\* _run_apify_actor: the outcomes that leave the try block by an exception;
\* run.get on a None run raises inside the try block
AttemptFails(outcome) == outcome \in {"raise", "none", "iterfail"}

\* the retry test off by one: a fourth attempt follows the third failure
RetryAfterOffByOne(a) == a <= Attempts

\* _run_apify_actor: the loop goes round again after a failed attempt
RetryAfter(a) == a < Attempts

\* scrape_profile: profile_data is filled from an item carrying a followers count
ProfileFound(items) == \E i \in 1..Len(items) : items[i].followers

RECURSIVE UrlsOf(_)
\* post_urls: the url of every item that has one
UrlsOf(items) ==
    IF items = <<>> THEN <<>>
    ELSE IF items[1].url # "" THEN << items[1].url >> \o UrlsOf(Tail(items))
         ELSE UrlsOf(Tail(items))

RECURSIVE DictKeys(_)
\* the keys of posts_dict, in insertion order
DictKeys(urls) ==
    IF urls = <<>> THEN <<>>
    ELSE LET init == DictKeys(SubSeq(urls, 1, Len(urls) - 1))
             last == urls[Len(urls)]
         IN  IF \E i \in 1..Len(init) : init[i] = last THEN init
             ELSE Append(init, last)

RECURSIVE CommentsFor(_, _)
\* comments_dict.get(post_url, [])
CommentsFor(url, comments) ==
    IF comments = <<>> THEN <<>>
    ELSE IF comments[1].postUrl = url
         THEN << comments[1] >> \o CommentsFor(url, Tail(comments))
         ELSE CommentsFor(url, Tail(comments))

\* scrape_profile: the unified records of one post
ProfilePostRows(url, comments) ==
    LET cs == CommentsFor(url, comments)
    IN  IF cs # <<>>
        THEN [i \in 1..Len(cs) |-> [post_url |-> url, comment_text |-> cs[i].text]]
        ELSE << [post_url |-> url, comment_text |-> None] >>

\* scrape_keyword: the unified record of one post
KeywordPostRows(url, comments) ==
    << [post_url |-> url,
        comments_scraped_count |-> Len(CommentsFor(url, comments))] >>

RECURSIVE IgCombine(_, _, _)
\* the "Combining all data" loop over posts_dict
IgCombine(op, keys, comments) ==
    IF keys = <<>> THEN <<>>
    ELSE (IF op = "profile" THEN ProfilePostRows(keys[1], comments)
          ELSE KeywordPostRows(keys[1], comments))
         \o IgCombine(op, Tail(keys), comments)

\* scrape_post_urls: the unified records of one post item
UrlItemRows(item, with_comments) ==
    LET cs == IF with_comments THEN item.latestComments ELSE <<>>
    IN  IF cs # <<>>
        THEN [i \in 1..Len(cs) |-> [post_url |-> item.url, comment_id |-> cs[i]]]
        ELSE << [post_url |-> item.url, comment_id |-> None] >>

RECURSIVE UrlRows(_, _)
UrlRows(items, with_comments) ==
    IF items = <<>> THEN <<>>
    ELSE UrlItemRows(items[1], with_comments) \o UrlRows(Tail(items), with_comments)

InstagramKey(r) == << r.post_url, r.comment_id >>

RECURSIVE DropDuplicatesNoneDistinct(_)
\* drop_duplicates in which a missing comment_id equals no other missing one
DropDuplicatesNoneDistinct(s) ==
    IF s = <<>> THEN <<>>
    ELSE LET init == DropDuplicatesNoneDistinct(SubSeq(s, 1, Len(s) - 1))
             last == s[Len(s)]
         IN  IF /\ last.comment_id # None
                /\ \E i \in 1..Len(init) : InstagramKey(init[i]) = InstagramKey(last)
             THEN init
             ELSE Append(init, last)

RECURSIVE DropDuplicatesInstagram(_)
\* df.drop_duplicates(subset=["post_url", "comment_id"], keep="first")
DropDuplicatesInstagram(s) ==
    IF s = <<>> THEN <<>>
    ELSE LET init == DropDuplicatesInstagram(SubSeq(s, 1, Len(s) - 1))
             last == s[Len(s)]
         IN  IF \E i \in 1..Len(init) : InstagramKey(init[i]) = InstagramKey(last)
             THEN init
             ELSE Append(init, last)

othervars == << run_idx, raised, fbvars, twvars, unitvars >>

\* main: the Instagram scraper is chosen
IGStart ==
    /\ pc = "menu"
    /\ platform' = "instagram"
    /\ pc' = "ig_menu"
    /\ UNCHANGED << outstanding, calls_made, rows, df, raw_written,
                    csv_written, csv_writes, final_csv, sentiment, result, dashboard,
                    igvars, othervars, ig_files >>

\* run_instagram_scraper: one round of the menu loop up to the first actor
\* step of the chosen operation, or the exit
IGChoose ==
    /\ pc = "ig_menu"
    /\ \/ /\ pc' = "done"
          /\ UNCHANGED << calls_made, rows, df, raw_written, csv_written, csv_writes,
                          final_csv, sentiment, result, dashboard, igvars >>
       \/ \E op \in IgOps, inc \in BOOLEAN, ck \in BOOLEAN :
            /\ ig_op' = op
            /\ ig_site' = FirstSite(op)
            /\ include_comments' = inc
            /\ cookies_ok' = ck
            /\ attempt' = 1
            /\ last_outcome' = "none"
            /\ last_items' = <<>>
            /\ actor_ret' = <<>>
            /\ post_urls' = <<>>
            /\ calls_made' = <<>>
            /\ rows' = <<>>
            /\ df' = <<>>
            /\ raw_written' = FALSE
            /\ csv_written' = FALSE
            /\ csv_writes' = 0
            /\ final_csv' = <<>>
            /\ sentiment' = "none"
            /\ result' = NoResult
            /\ dashboard' = FALSE
            /\ pc' = "ig_actor"
    /\ UNCHANGED << platform, outstanding, othervars, ig_files >>

\* _run_apify_actor: self.client.actor(actor_id).call(run_input=run_input)
IGActorCall ==
    /\ pc = "ig_actor"
    /\ outstanding' = Issue(<< ig_site, attempt >>)
    /\ calls_made' = Append(calls_made, << ig_site, attempt >>)
    /\ pc' = "ig_actor_wait"
    /\ UNCHANGED << platform, rows, df, raw_written, csv_written, csv_writes, final_csv,
                    sentiment, result, dashboard, igvars, othervars, ig_files >>

\* _run_apify_actor: the attempt ends; it returns, or the loop goes round
IGActorReturn ==
    /\ pc = "ig_actor_wait"
    /\ outstanding' = Complete(<< ig_site, attempt >>)
    /\ \E outcome \in CallOutcomes, items \in IgItemsOf(ig_site) :
        /\ last_outcome' = outcome
        /\ last_items' = IF outcome = "ok" THEN items ELSE <<>>
        /\ IF AttemptFails(outcome) /\ RetryAfter(attempt)
           THEN /\ attempt' = attempt + 1
                /\ actor_ret' = actor_ret
                /\ pc' = "ig_actor"
           ELSE /\ attempt' = attempt
                /\ actor_ret' = IF outcome = "ok" THEN items ELSE <<>>
                /\ pc' = "ig_cont"
    /\ UNCHANGED << platform, calls_made, rows, df, raw_written, csv_written, csv_writes,
                    final_csv, sentiment, result, dashboard, ig_op, ig_site,
                    include_comments, cookies_ok, post_urls, othervars, ig_files >>

\* the next actor step of the operation starts
IgNextSite(site) ==
    /\ ig_site' = site
    /\ attempt' = 1
    /\ pc' = "ig_actor"

\* the scrape operation returns its DataFrame to run_instagram_scraper
IgReturnTable(before, after) ==
    /\ rows' = before
    /\ df' = after
    /\ pc' = "ig_cli"
    /\ UNCHANGED << ig_site, attempt >>

\* scrape_profile after the profile step
IGAfterProfile ==
    /\ pc = "ig_cont"
    /\ ig_site = "profile"
    /\ raw_written' = (raw_written \/ actor_ret # <<>>)
    /\ IF ProfileFound(actor_ret)
       THEN IgNextSite("posts") /\ UNCHANGED << rows, df >>
       ELSE IgReturnTable(<<>>, <<>>)
    /\ UNCHANGED << platform, outstanding, calls_made, csv_written, csv_writes, final_csv,
                    sentiment, result, dashboard, ig_op, include_comments,
                    cookies_ok, last_outcome, last_items, actor_ret,
                    post_urls, othervars, ig_files >>

\* scrape_profile after the posts step, scrape_keyword after the hashtag step
IGAfterPosts ==
    /\ pc = "ig_cont"
    /\ ig_site \in {"posts", "hashtag"}
    /\ raw_written' = (raw_written \/ actor_ret # <<>>)
    /\ IF actor_ret = <<>>
       THEN IgReturnTable(<<>>, <<>>) /\ UNCHANGED post_urls
       ELSE /\ post_urls' = UrlsOf(actor_ret)
            /\ IF include_comments /\ UrlsOf(actor_ret) # <<>> /\ cookies_ok
               THEN IgNextSite("comments") /\ UNCHANGED << rows, df >>
               ELSE IgReturnTable(
                        IgCombine(ig_op, DictKeys(UrlsOf(actor_ret)), <<>>),
                        IgCombine(ig_op, DictKeys(UrlsOf(actor_ret)), <<>>))
    /\ UNCHANGED << platform, outstanding, calls_made, csv_written, csv_writes, final_csv,
                    sentiment, result, dashboard, ig_op, include_comments,
                    cookies_ok, last_outcome, last_items, actor_ret,
                    othervars, ig_files >>

\* scrape_profile / scrape_keyword after the comments step
IGAfterComments ==
    /\ pc = "ig_cont"
    /\ ig_site = "comments"
    /\ raw_written' = (raw_written \/ actor_ret # <<>>)
    /\ IgReturnTable(IgCombine(ig_op, DictKeys(post_urls), actor_ret),
                     IgCombine(ig_op, DictKeys(post_urls), actor_ret))
    /\ UNCHANGED << platform, outstanding, calls_made, csv_written, csv_writes, final_csv,
                    sentiment, result, dashboard, ig_op, include_comments,
                    cookies_ok, last_outcome, last_items, actor_ret,
                    post_urls, othervars, ig_files >>

\* scrape_post_urls after its only actor step
IGAfterPostUrls ==
    /\ pc = "ig_cont"
    /\ ig_site = "post_urls"
    /\ raw_written' = (raw_written \/ actor_ret # <<>>)
    /\ IgReturnTable(UrlRows(actor_ret, include_comments),
                     DropDuplicatesInstagram(UrlRows(actor_ret, include_comments)))
    /\ UNCHANGED << platform, outstanding, calls_made, csv_written, csv_writes, final_csv,
                    sentiment, result, dashboard, ig_op, include_comments,
                    cookies_ok, last_outcome, last_items, actor_ret,
                    post_urls, othervars, ig_files >>

\* run_instagram_scraper: save_final_data is entered unless the table is empty
IGSaveFinal ==
    /\ pc = "ig_cli"
    /\ IF df = <<>>
       THEN /\ result' = [returned |-> TRUE, final_file |-> FALSE]
            /\ pc' = "ig_menu"
       ELSE /\ result' = result
            /\ pc' = "ig_sentiment"
    /\ UNCHANGED << platform, outstanding, calls_made, rows, df, raw_written,
                    csv_written, csv_writes, final_csv, sentiment, dashboard, igvars,
                    othervars, ig_files >>

\* _apply_sentiment_analysis: InstagramSentimentAnalyzer is entered
IGSentimentCall ==
    /\ pc = "ig_sentiment"
    /\ outstanding' = Issue(<< "classifier", 1 >>)
    /\ pc' = "ig_sentiment_wait"
    /\ UNCHANGED << platform, calls_made, rows, df, raw_written, csv_written, csv_writes,
                    final_csv, sentiment, result, dashboard, igvars,
                    othervars, ig_files >>

\* _apply_sentiment_analysis returns; a failure is caught and df is kept
IGSentimentReturn ==
    /\ pc = "ig_sentiment_wait"
    /\ outstanding' = Complete(<< "classifier", 1 >>)
    /\ \E outcome \in SentimentOutcomes :
        sentiment' = IF outcome = "ok" THEN "ok" ELSE "failed"
    /\ pc' = "ig_write"
    /\ UNCHANGED << platform, calls_made, rows, df, raw_written, csv_written, csv_writes,
                    final_csv, result, dashboard, igvars, othervars, ig_files >>

\* save_final_data: df.to_csv(output_file), output_file is returned
IGWriteCsv ==
    /\ pc = "ig_write"
    /\ final_csv' = df
    /\ csv_written' = TRUE
    /\ csv_writes' = csv_writes + 1
    /\ ig_files' = ig_files \cup {FinalPath(ig_op)}
    /\ result' = [returned |-> TRUE, final_file |-> TRUE]
    /\ pc' = "ig_dash"
    /\ UNCHANGED << platform, outstanding, calls_made, rows, df, raw_written,
                    sentiment, dashboard, igvars, othervars >>

\* run_instagram_scraper: the dashboard prompt, then the menu again
IGDashboard ==
    /\ pc = "ig_dash"
    /\ \E yes \in BOOLEAN : dashboard' = (result.final_file /\ yes)
    /\ pc' = "ig_menu"
    /\ UNCHANGED << platform, outstanding, calls_made, rows, df, raw_written,
                    csv_written, csv_writes, final_csv, sentiment, result, igvars,
                    othervars, ig_files >>

NextIG ==
    \/ IGStart
    \/ IGChoose
    \/ IGActorCall
    \/ IGActorReturn
    \/ IGAfterProfile
    \/ IGAfterPosts
    \/ IGAfterComments
    \/ IGAfterPostUrls
    \/ IGSaveFinal
    \/ IGSentimentCall
    \/ IGSentimentReturn
    \/ IGWriteCsv
    \/ IGDashboard

Next ==
    \/ FBStart
    \/ FBPostsCall
    \/ FBPostsReturn
    \/ FBCommentsSkip
    \/ FBCommentsCall
    \/ FBCommentsReturn
    \/ FBSaveAndBuild
    \/ FBSentimentCall
    \/ FBSentimentReturn
    \/ FBWriteCsv
    \/ FBSummaryAndReturn
    \/ FBDashboard
    \/ FBAppSentimentCall
    \/ FBAppSentimentReturn
    \/ TWStart
    \/ TWProfileCall
    \/ TWProfileReturn
    \/ TWRepliesCall
    \/ TWRepliesReturn
    \/ TWRetweetersCall
    \/ TWRetweetersReturn
    \/ TWSaveAndBuild
    \/ TWSentimentCall
    \/ TWSentimentReturn
    \/ TWWriteAndReturn
    \/ TWDashboard
    \/ NextIG

Spec == Init /\ [][Next]_vars

\* the Instagram scraper alone: the single thread goes on to issue the call it
\* has reached, and a blocking call eventually returns or raises
SpecIG ==
    /\ Init
    /\ [][NextIG]_vars
    /\ WF_vars(IGActorCall)
    /\ WF_vars(IGActorReturn)

pipevars ==
    << platform, pc, run_idx, n_runs, outstanding, calls_made, raised,
       all_posts, posts, complete_data, rows, df, raw_written, csv_written,
       csv_writes, ig_files, final_csv, sentiment, summary, result, dashboard,
       tweet_ids, cur, all_data, igvars >>

\* ---------------------------------------------------------------------
\* The Facebook posts limit: run_facebook_scraper, the Facebook form of
\* app.py and _scrape_posts_with_reactions
\* ---------------------------------------------------------------------
IntVal(n) == [kind |-> "int", val |-> n]

\* values typed into the prompt or the form, or passed by a direct caller
IntInputs == { IntVal(n) : n \in {-1, 0, 1, 2, 3, 4, 10, 1001} }

\* what each caller can hand over: a direct call passes None or an integer,
\* the prompt reads nothing, text that is no integer, or an integer, the
\* number_input widget holds an integer
MaxPostsInputs(e) ==
    CASE e = "direct" -> IntInputs \cup { NoInt }
      [] e = "cli" -> IntInputs \cup { [kind |-> "empty", val |-> 0],
                                       [kind |-> "text", val |-> 0] }
      [] e = "app" -> IntInputs

ModeArgs ==
    { [mode |-> m, group_url_ok |-> TRUE] : m \in Modes }
    \cup { [mode |-> "group", group_url_ok |-> FALSE] }

\* run_facebook_scraper: int(max_posts_input) if max_posts_input else 10,
\* 10 on ValueError, then raised to 3
CliMaxPosts(typed) ==
    LET parsed == IF typed.kind = "int" THEN typed.val ELSE 10
    IN  IntVal(IF parsed < 3 THEN 3 ELSE parsed)

\* app.py: st.number_input("Max Posts", min_value=3, max_value=1000, value=10)
AppMaxPosts(typed) ==
    IntVal(IF typed.val < 3 THEN 3 ELSE IF typed.val > 1000 THEN 1000 ELSE typed.val)

\* the minimum applied only to a missing value
EnsureMinimumNoneOnly(mp) == IF mp.kind = "none" THEN IntVal(3) ELSE mp

\* _scrape_posts_with_reactions: "if max_posts is None or max_posts < 3"
EnsureMinimum(mp) == IF mp.kind = "none" \/ mp.val < 3 THEN IntVal(3) ELSE mp

\* the limit of every run input built for the mode
ActorRuns(m, mp) ==
    IF m.mode = "group"
    THEN IF m.group_url_ok THEN << mp.val >> ELSE <<>>
    ELSE << mp.val, mp.val >>

InitLimit ==
    /\ PipelineIdle
    /\ DeriveIdle
    /\ SentimentIdle
    /\ DashboardIdle
    /\ CommentsIdle
    /\ unit_pc = "limit_entry"
    /\ entry \in {"direct", "cli", "app"}
    /\ max_posts_input \in MaxPostsInputs(entry)
    /\ mode_arg \in ModeArgs
    /\ max_posts = NoInt
    /\ actor_runs = <<>>

\* the caller computes the max_posts it passes to scrape_from_url
LimitPass ==
    /\ unit_pc = "limit_entry"
    /\ max_posts' = CASE entry = "cli" -> CliMaxPosts(max_posts_input)
                       [] entry = "app" -> AppMaxPosts(max_posts_input)
                       [] entry = "direct" -> max_posts_input
    /\ unit_pc' = "limit_call"
    /\ UNCHANGED << entry, max_posts_input, mode_arg, actor_runs, pipevars,
                    derivevars, sentvars, dashvars, commentvars >>

\* _scrape_posts_with_reactions up to the construction of actor_runs
LimitBuildRuns ==
    /\ unit_pc = "limit_call"
    /\ actor_runs' = ActorRuns(mode_arg, EnsureMinimum(max_posts))
    /\ unit_pc' = "limit_built"
    /\ UNCHANGED << entry, max_posts_input, mode_arg, max_posts, pipevars,
                    derivevars, sentvars, dashvars, commentvars >>

NextLimit == LimitPass \/ LimitBuildRuns

SpecLimit == InitLimit /\ [][NextLimit]_vars

\* ---------------------------------------------------------------------
\* FacebookScraperPipeline._add_derived_columns, one row at a time
\* ---------------------------------------------------------------------
\* a cell without value (NaN, None, or a column the table lacks)
Missing == [kind |-> "nan", val |-> 0]

\* a cell holding text that is no number
NonNumeric == [kind |-> "text", val |-> 0]

\* the cells a reaction column of a positive emotion can hold
PositiveEmojiCells == { Missing, IntVal(0), IntVal(1) }

\* the cells a reaction column of a negative emotion can hold
NegativeEmojiCells == { NonNumeric, IntVal(0), IntVal(2) }

FbRows ==
    [ emoji_like : PositiveEmojiCells, emoji_love : PositiveEmojiCells,
      emoji_haha : PositiveEmojiCells, emoji_wow : PositiveEmojiCells,
      emoji_care : PositiveEmojiCells,
      emoji_sad : NegativeEmojiCells, emoji_angry : NegativeEmojiCells,
      post_total_reactions : { Missing, NonNumeric, IntVal(0), IntVal(1),
                               IntVal(3) },
      post_total_comments : { Missing, IntVal(0), IntVal(2) },
      post_total_shares : { NonNumeric, IntVal(0), IntVal(1) } ]

\* pd.to_numeric(col, errors="coerce").fillna(0)
ToNumeric(cell) == IF cell.kind = "int" THEN cell.val ELSE 0

\* df["positive_reactions"]
PositiveReactions(r) ==
    ToNumeric(r.emoji_like) + ToNumeric(r.emoji_love) + ToNumeric(r.emoji_haha)
    + ToNumeric(r.emoji_wow) + ToNumeric(r.emoji_care)

\* df["negative_reactions"]
NegativeReactions(r) == ToNumeric(r.emoji_sad) + ToNumeric(r.emoji_angry)

\* df["post_engagement_total"]
EngagementTotal(r) ==
    ToNumeric(r.post_total_reactions) + ToNumeric(r.post_total_comments)
    + ToNumeric(r.post_total_shares)

\* emoji_cols, in the order of the list
EmojiCols ==
    << "emoji_like", "emoji_love", "emoji_haha", "emoji_wow", "emoji_sad",
       "emoji_angry", "emoji_care" >>

\* .str.replace("emoji_", "") on each name of emoji_cols
EmotionOf(col) ==
    CASE col = "emoji_like" -> "like"
      [] col = "emoji_love" -> "love"
      [] col = "emoji_haha" -> "haha"
      [] col = "emoji_wow" -> "wow"
      [] col = "emoji_sad" -> "sad"
      [] col = "emoji_angry" -> "angry"
      [] col = "emoji_care" -> "care"

\* the label of the last column holding the largest count
DominantEmotionLast(r) ==
    LET best == CHOOSE i \in 1..Len(EmojiCols) :
                    /\ \A j \in 1..Len(EmojiCols) :
                        ToNumeric(r[EmojiCols[j]]) <= ToNumeric(r[EmojiCols[i]])
                    /\ \A j \in (i + 1)..Len(EmojiCols) :
                        ToNumeric(r[EmojiCols[j]]) < ToNumeric(r[EmojiCols[i]])
    IN  EmotionOf(EmojiCols[best])

\* df[emoji_cols].idxmax(axis=1).str.replace("emoji_", ""): the label of the
\* first column holding the largest count of the row
DominantEmotion(r) ==
    LET best == CHOOSE i \in 1..Len(EmojiCols) :
                    /\ \A j \in 1..Len(EmojiCols) :
                        ToNumeric(r[EmojiCols[j]]) <= ToNumeric(r[EmojiCols[i]])
                    /\ \A j \in 1..(i - 1) :
                        ToNumeric(r[EmojiCols[j]]) < ToNumeric(r[EmojiCols[i]])
    IN  EmotionOf(EmojiCols[best])

Zero == [num |-> 0, den |-> 1]

\* the ratio taken whenever the reactions total is not negative
SentimentRatioNoGuard(r) ==
    IF ToNumeric(r.post_total_reactions) >= 0
    THEN [num |-> PositiveReactions(r), den |-> ToNumeric(r.post_total_reactions)]
    ELSE Zero

\* df["sentiment_ratio"]: positive_reactions / post_total_reactions when
\* post_total_reactions > 0, else 0; the quotient is kept as a fraction
SentimentRatio(r) ==
    IF ToNumeric(r.post_total_reactions) > 0
    THEN [num |-> PositiveReactions(r), den |-> ToNumeric(r.post_total_reactions)]
    ELSE Zero

InitDerive ==
    /\ PipelineIdle
    /\ LimitIdle
    /\ SentimentIdle
    /\ DashboardIdle
    /\ CommentsIdle
    /\ unit_pc = "derive_entry"
    /\ fb_row \in FbRows
    /\ derived = NoRow

\* _add_derived_columns
AddDerivedColumns ==
    /\ unit_pc = "derive_entry"
    /\ derived' = [present |-> TRUE,
                   post_total_reactions |-> ToNumeric(fb_row.post_total_reactions),
                   post_engagement_total |-> EngagementTotal(fb_row),
                   dominant_emotion |-> DominantEmotion(fb_row),
                   positive_reactions |-> PositiveReactions(fb_row),
                   negative_reactions |-> NegativeReactions(fb_row),
                   sentiment_ratio |-> SentimentRatio(fb_row)]
    /\ unit_pc' = "derive_done"
    /\ UNCHANGED << fb_row, limitvars, pipevars, sentvars, dashvars, commentvars >>

NextDerive == AddDerivedColumns

SpecDerive == InitDerive /\ [][NextDerive]_vars

\* ---------------------------------------------------------------------
\* The sentiment analyzers: SentimentAnalyzer.analyze_posts_and_comments,
\* InstagramSentimentAnalyzer / TwitterSentimentAnalyzer.analyze_text_batch,
\* analyze_instagram_data and analyze_twitter_data
\* ---------------------------------------------------------------------
\* texts as a caller of analyze_text_batch can pass them; None is a missing one
RawTexts == { None, "", " ", "nan", "good", "bad" }

\* cells of the first text column (post_message, post_caption, tweet_text)
FirstTexts == { None, "good" }

\* cells of the second text column (comment_text, text) of a comment or reply
SecondTexts == { None, " ", "nan", "good", "bad" }

\* cells of the text column of a retweeter row
RetweeterTexts == { "", "rt" }

\* rows of the tables handed to the Facebook and Instagram analyzers
PlainRows ==
    [ interaction_type : {"row"}, first : FirstTexts, second : SecondTexts ]

\* rows of the table handed to analyze_twitter_data
TwitterTableRows ==
    [ interaction_type : {"reply"}, first : FirstTexts, second : SecondTexts ]
    \cup [ interaction_type : {"retweeter"}, first : FirstTexts,
           second : RetweeterTexts ]

\* str.strip() on the texts of the model
Strip(t) == IF t \in {"", " "} THEN "" ELSE t

\* .fillna("").astype(str) on a cell
AsStr(cell) == IF cell = None THEN "" ELSE cell

\* the appended result of a text that is not analysed
Neutral == [label |-> "NEUTRAL", score |-> 0]

\* self.analyzer(text[:512], truncation=True)[0] of the configured model
\* cardiffnlp/twitter-roberta-base-sentiment-latest, which names its classes
\* negative, neutral, positive; scores in tenths
Classify(t) ==
    CASE t = "good" -> [label |-> "positive", score |-> 9]
      [] t = "bad" -> [label |-> "negative", score |-> 8]
      [] OTHER -> [label |-> "neutral", score |-> 6]

\* the test without its 'nan' case
SkipTextNoNan(t) == t = None \/ Strip(t) = ""

\* pd.isna(text) or str(text).strip() == "" or str(text) == "nan"; the loops
\* of analyze_posts_and_comments test the same on texts that are never missing
SkipText(t) == t = None \/ Strip(t) = "" \/ t = "nan"

\* the column a loop runs over
Column(t, col) == [i \in 1..Len(t) |-> AsStr(t[i][col])]

RECURSIVE ReplyTexts(_)
\* df.loc[reply_mask, "text"].fillna("").astype(str).tolist()
ReplyTexts(t) ==
    IF t = <<>> THEN <<>>
    ELSE IF t[1].interaction_type = "reply"
         THEN << AsStr(t[1].second) >> \o ReplyTexts(Tail(t))
         ELSE ReplyTexts(Tail(t))

\* the results laid over the first rows of the table, whatever their type
FillFromTop(t, res) ==
    [i \in 1..Len(t) |-> IF i <= Len(res) THEN res[i] ELSE Neutral]

RECURSIVE FillMasked(_, _)
\* the columns initialised with NEUTRAL and 0.0, then
\* df.loc[reply_mask, ...] = [... for s in reply_results]
FillMasked(t, res) ==
    IF t = <<>> THEN <<>>
    ELSE IF t[1].interaction_type = "reply"
         THEN << res[1] >> \o FillMasked(Tail(t), Tail(res))
         ELSE << Neutral >> \o FillMasked(Tail(t), res)

InitSentiment ==
    /\ PipelineIdle
    /\ LimitIdle
    /\ DeriveIdle
    /\ DashboardIdle
    /\ CommentsIdle
    /\ analyzer \in {"batch", "facebook", "instagram", "twitter"}
    /\ sdf \in CASE analyzer = "batch" -> { <<>> }
               [] analyzer = "twitter" -> SeqsUpTo(TwitterTableRows, MaxTexts) \ { <<>> }
               [] OTHER -> SeqsUpTo(PlainRows, MaxTexts) \ { <<>> }
    /\ texts \in IF analyzer = "batch" THEN SeqsUpTo(RawTexts, MaxTexts)
                 ELSE { Column(sdf, "first") }
    /\ unit_pc = IF analyzer = "batch" THEN "sent_batch" ELSE "sent_first"
    /\ results = <<>>
    /\ invoked = <<>>
    /\ label_cols = NoColumns

SentLoops == {"sent_batch", "sent_first", "sent_second"}

\* one round of the loop "for i, text in enumerate(texts)": the text is
\* skipped, or the classifier is called and returns or raises
SentStep ==
    /\ unit_pc \in SentLoops
    /\ Len(results) < Len(texts)
    /\ LET t == texts[Len(results) + 1]
       IN  IF SkipText(t)
           THEN /\ results' = Append(results, Neutral)
                /\ invoked' = invoked
           ELSE /\ invoked' = Append(invoked, t)
                /\ \E raises \in BOOLEAN :
                    results' = Append(results, IF raises THEN Neutral
                                               ELSE Classify(t))
    /\ UNCHANGED << unit_pc, analyzer, sdf, texts, label_cols, limitvars,
                    derivevars, pipevars, dashvars, commentvars >>

\* analyze_text_batch called on its own returns results
SentEndBatch ==
    /\ unit_pc = "sent_batch"
    /\ Len(results) = Len(texts)
    /\ unit_pc' = "sent_done"
    /\ UNCHANGED << sentvars, limitvars, derivevars, pipevars, dashvars, commentvars >>

\* the first pair of columns is written and the second loop is set up; in
\* analyze_twitter_data a table without replies gets NEUTRAL and 0.0 at once
SentEndFirst ==
    /\ unit_pc = "sent_first"
    /\ Len(results) = Len(texts)
    /\ IF analyzer = "twitter" /\ ReplyTexts(sdf) = <<>>
       THEN /\ label_cols' = [first |-> results,
                              second |-> [i \in 1..Len(sdf) |-> Neutral]]
            /\ texts' = <<>>
            /\ results' = <<>>
            /\ invoked' = <<>>
            /\ unit_pc' = "sent_done"
       ELSE /\ label_cols' = [label_cols EXCEPT !.first = results]
            /\ texts' = IF analyzer = "twitter" THEN ReplyTexts(sdf)
                        ELSE Column(sdf, "second")
            /\ results' = <<>>
            /\ invoked' = <<>>
            /\ unit_pc' = "sent_second"
    /\ UNCHANGED << analyzer, sdf, limitvars, derivevars, pipevars, dashvars, commentvars >>

\* the second pair of columns is written and the table is returned
SentEndSecond ==
    /\ unit_pc = "sent_second"
    /\ Len(results) = Len(texts)
    /\ label_cols' = [label_cols EXCEPT !.second =
                          IF analyzer = "twitter" THEN FillMasked(sdf, results)
                          ELSE results]
    /\ unit_pc' = "sent_done"
    /\ UNCHANGED << analyzer, sdf, texts, results, invoked, limitvars,
                    derivevars, pipevars, dashvars, commentvars >>

NextSentiment == SentStep \/ SentEndBatch \/ SentEndFirst \/ SentEndSecond

SpecSentiment == InitSentiment /\ [][NextSentiment]_vars

\* ---------------------------------------------------------------------
\* The dashboard entry points run_dashboard, run_instagram_dashboard and
\* run_twitter_dashboard
\* ---------------------------------------------------------------------
Dashboards == {"facebook", "instagram", "twitter"}

\* a file argument or a file of the final directory: absent, a CSV that
\* pd.read_csv reads, or one on which pd.read_csv raises
FileStates == {"none", "loadable", "unloadable"}

\* the options of the menu loop: one of the single charts, all reports,
\* exit, or anything else
Choices == {"chart", "all", "exit", "invalid"}

\* load_data: self.df = pd.read_csv(csv_file) inside try/except; the table
\* is set only when the read succeeds
LoadData(file, old_df) == IF file = "loadable" THEN TRUE ELSE old_df

InitDashboard ==
    /\ PipelineIdle
    /\ LimitIdle
    /\ DeriveIdle
    /\ SentimentIdle
    /\ CommentsIdle
    /\ unit_pc = "dash_construct"
    /\ entry_point \in Dashboards
    /\ csv_file \in FileStates
    /\ latest_file \in FileStates
    /\ dashboard_df = FALSE
    /\ summary_printed = FALSE
    /\ menu_presented = FALSE
    /\ choice = "none"
    /\ plots = "none"

\* dashboard = XDashboard(csv_file): self.df = None, then load_data when a
\* file is given
DashConstruct ==
    /\ unit_pc = "dash_construct"
    /\ dashboard_df' = IF csv_file # "none" THEN LoadData(csv_file, FALSE)
                       ELSE FALSE
    /\ unit_pc' = "dash_check"
    /\ UNCHANGED << entry_point, csv_file, latest_file, summary_printed,
                    menu_presented, choice, plots, limitvars, derivevars,
                    sentvars, pipevars,
                    commentvars >>

\* the table is loaded: the search is skipped
DashHaveTable ==
    /\ unit_pc = "dash_check"
    /\ dashboard_df
    /\ unit_pc' = "dash_summary"
    /\ UNCHANGED << dashvars, limitvars, derivevars, sentvars, pipevars,
                    commentvars >>

\* if dashboard.df is None: latest_file = find_latest_data(); a file found
\* is handed to load_data, whose return value is dropped; none found returns
DashSearchLatest ==
    /\ unit_pc = "dash_check"
    /\ ~dashboard_df
    /\ IF latest_file # "none"
       THEN /\ dashboard_df' = LoadData(latest_file, dashboard_df)
            /\ unit_pc' = "dash_summary"
       ELSE /\ dashboard_df' = dashboard_df
            /\ unit_pc' = "dash_returned"
    /\ UNCHANGED << entry_point, csv_file, latest_file, summary_printed,
                    menu_presented, choice, plots, limitvars, derivevars,
                    sentvars, pipevars,
                    commentvars >>

\* print_summary_statistics (which returns at once without a table), then
\* the visualization options are printed
DashPresentMenu ==
    /\ unit_pc = "dash_summary"
    /\ summary_printed' = dashboard_df
    /\ menu_presented' = TRUE
    /\ unit_pc' = "dash_menu"
    /\ UNCHANGED << entry_point, csv_file, latest_file, dashboard_df, choice,
                    plots, limitvars, derivevars, sentvars, pipevars,
                    commentvars >>

\* one round of the menu loop; every create_* returns at once without a table
DashChoose ==
    /\ unit_pc = "dash_menu"
    /\ \E c \in Choices :
        /\ choice' = c
        /\ plots' = IF c \in {"chart", "all"}
                    THEN (IF dashboard_df THEN c ELSE "no data loaded")
                    ELSE plots
        /\ unit_pc' = IF c \in {"all", "exit"} THEN "dash_returned"
                      ELSE "dash_menu"
    /\ UNCHANGED << entry_point, csv_file, latest_file, dashboard_df,
                    summary_printed, menu_presented, limitvars, derivevars,
                    sentvars, pipevars,
                    commentvars >>

NextDashboard ==
    \/ DashConstruct
    \/ DashHaveTable
    \/ DashSearchLatest
    \/ DashPresentMenu
    \/ DashChoose

SpecDashboard == InitDashboard /\ [][NextDashboard]_vars

\* ---------------------------------------------------------------------
\* The end of _scrape_posts_with_reactions on its own: all_posts as the two
\* search runs (or the one group run) filled it, made unique and returned
\* ---------------------------------------------------------------------
\* the post dictionaries the loop over the dataset items can append
PostDicts == { PostOfItem(item) : item \in PostItems }

InitUniquePosts ==
    /\ platform = "facebook"
    /\ pc = "fb_unique"
    /\ n_runs \in {1, 2}
    /\ all_posts \in SeqsUpTo(PostDicts, n_runs * MaxItems)
    /\ run_idx = 1
    /\ outstanding = {}
    /\ calls_made = <<>>
    /\ raised = FALSE
    /\ posts = <<>>
    /\ complete_data = <<>>
    /\ rows = <<>>
    /\ df = <<>>
    /\ raw_written = FALSE
    /\ csv_written = FALSE
    /\ csv_writes = 0
    /\ ig_files = {}
    /\ final_csv = <<>>
    /\ sentiment = "none"
    /\ summary = NoSummary
    /\ result = NoResult
    /\ dashboard = FALSE
    /\ tweet_ids = <<>>
    /\ cur = NoCur
    /\ all_data = <<>>
    /\ ig_op = "none"
    /\ ig_site = "none"
    /\ attempt = 1
    /\ include_comments = FALSE
    /\ cookies_ok = FALSE
    /\ last_outcome = "none"
    /\ last_items = <<>>
    /\ actor_ret = <<>>
    /\ post_urls = <<>>
    /\ UnitsIdle

\* unique_posts = {p["post_id"]: p for p in all_posts}.values();
\* return list(unique_posts)
ReturnUniquePosts ==
    /\ pc = "fb_unique"
    /\ posts' = UniquePosts(all_posts)
    /\ pc' = "fb_unique_returned"
    /\ UNCHANGED << platform, run_idx, n_runs, outstanding, calls_made,
                    raised, all_posts, complete_data, rows, df, raw_written,
                    csv_written, csv_writes, final_csv, sentiment, summary,
                    result, dashboard, twvars >>
    /\ UNCHANGED << igvars, ig_files, unitvars >>

SpecUniquePosts == InitUniquePosts /\ [][ReturnUniquePosts]_vars

\* ---------------------------------------------------------------------
\* The Facebook comments limit: run_facebook_scraper, the Facebook form of
\* app.py and _scrape_comments
\* ---------------------------------------------------------------------
\* what each caller can hand over as the maximum of comments per post: a
\* direct call passes None, a value that is no integer, or an integer
MaxCommentsInputs(e) ==
    CASE e = "direct" -> IntInputs \cup { NoInt, [kind |-> "text", val |-> 0] }
      [] e = "cli" -> IntInputs \cup { [kind |-> "empty", val |-> 0],
                                       [kind |-> "text", val |-> 0] }
      [] e = "app" -> IntInputs

\* post URLs handed to _scrape_comments: missing, empty, blank, or a URL
PostUrls == { None, "", " ", "u1" }

\* run_facebook_scraper: int(max_comments_input) if max_comments_input else
\* 50, 50 on ValueError, then raised to 0
CliMaxComments(typed) ==
    LET parsed == IF typed.kind = "int" THEN typed.val ELSE 50
    IN  IntVal(IF parsed < 0 THEN 0 ELSE parsed)

\* app.py: st.number_input("Max Comments per Post", min_value=0,
\* max_value=500, value=20)
AppMaxComments(typed) ==
    IntVal(IF typed.val < 0 THEN 0 ELSE IF typed.val > 500 THEN 500 ELSE typed.val)

\* a limit that lets a maximum of 0 through
CommentsLimitFromZero(mc) ==
    IF mc.kind = "int" /\ mc.val >= 0 THEN mc.val ELSE 100

\* comments_limit = max_comments if isinstance(max_comments, int) and
\* max_comments > 0 else 100
CommentsLimit(mc) ==
    IF mc.kind = "int" /\ mc.val > 0 THEN mc.val ELSE 100

\* if not post_url or str(post_url).strip() == ""
EmptyPostUrl(u) == u = None \/ Strip(u) = ""

InitComments ==
    /\ PipelineIdle
    /\ LimitIdle
    /\ DeriveIdle
    /\ SentimentIdle
    /\ DashboardIdle
    /\ unit_pc = "comments_entry"
    /\ comments_entry \in {"direct", "cli", "app"}
    /\ max_comments_input \in MaxCommentsInputs(comments_entry)
    /\ post_url \in PostUrls
    /\ max_comments = NoInt
    /\ comments_request = NoRequest

\* the caller computes the max_comments_per_post it passes to scrape_from_url,
\* which hands it to _scrape_comments for every post
CommentsPass ==
    /\ unit_pc = "comments_entry"
    /\ max_comments' =
          CASE comments_entry = "cli" -> CliMaxComments(max_comments_input)
            [] comments_entry = "app" -> AppMaxComments(max_comments_input)
            [] comments_entry = "direct" -> max_comments_input
    /\ unit_pc' = "comments_call"
    /\ UNCHANGED << comments_entry, max_comments_input, post_url,
                    comments_request, pipevars, limitvars, derivevars,
                    sentvars, dashvars >>

\* _scrape_comments up to the actor call: [] at once for an empty URL, else
\* run_input with resultsLimit = comments_limit
CommentsBuildRequest ==
    /\ unit_pc = "comments_call"
    /\ IF EmptyPostUrl(post_url)
       THEN /\ comments_request' = NoRequest
            /\ unit_pc' = "comments_skipped"
       ELSE /\ comments_request' = [sent |-> TRUE, url |-> post_url,
                                    resultsLimit |-> CommentsLimit(max_comments)]
            /\ unit_pc' = "comments_requested"
    /\ UNCHANGED << comments_entry, max_comments_input, max_comments, post_url,
                    pipevars, limitvars, derivevars, sentvars, dashvars >>

NextComments == CommentsPass \/ CommentsBuildRequest

SpecComments == InitComments /\ [][NextComments]_vars

\* =====================================================================
\* Properties
\* =====================================================================
Max(a, b) == IF a >= b THEN a ELSE b

Range(s) == {s[i] : i \in 1..Len(s)}

FacebookWritten == platform = "facebook" /\ csv_written

TwitterWritten == platform = "twitter" /\ csv_written

\* C1: the Facebook final CSV holds no two rows with the same
\* (post_id, comment_id); every key of the flattened rows is still present,
\* and the row kept for a key is the first flattened row carrying that key.
C1_FacebookDedupKeepsFirst ==
    FacebookWritten =>
        /\ \A i, j \in 1..Len(final_csv) :
            i # j => << final_csv[i].post_id, final_csv[i].comment_id >>
                     # << final_csv[j].post_id, final_csv[j].comment_id >>
        /\ \A j \in 1..Len(rows) : \E i \in 1..Len(final_csv) :
            /\ final_csv[i].post_id = rows[j].post_id
            /\ final_csv[i].comment_id = rows[j].comment_id
        /\ \A i \in 1..Len(final_csv) : \E j \in 1..Len(rows) :
            /\ rows[j] = final_csv[i]
            /\ \A k \in 1..(j - 1) :
                 << rows[k].post_id, rows[k].comment_id >>
                 # << rows[j].post_id, rows[j].comment_id >>

\* C1 witness: a final CSV from which a later row of an already seen key,
\* with another comment text, was dropped
C1_Witness ==
    /\ FacebookWritten
    /\ Len(final_csv) < Len(rows)
    /\ \E j, k \in 1..Len(rows) :
        /\ j < k
        /\ rows[j].post_id = rows[k].post_id
        /\ rows[j].comment_id = rows[k].comment_id
        /\ rows[j].comment_text # rows[k].comment_text

\* C2: the Twitter final CSV holds no two rows with the same
\* (tweet_id, interaction_type, username).
C2_TwitterNoDuplicateKeys ==
    TwitterWritten =>
        \A i, j \in 1..Len(final_csv) :
            i # j => << final_csv[i].tweet_id, final_csv[i].interaction_type,
                        final_csv[i].username >>
                     # << final_csv[j].tweet_id, final_csv[j].interaction_type,
                          final_csv[j].username >>

\* rows before deduplication that the posts 1..n of complete_data contribute
RECURSIVE RowsBefore(_)
RowsBefore(n) ==
    IF n = 0 THEN 0
    ELSE RowsBefore(n - 1) + Max(1, Len(complete_data[n].comments))

\* C3: before deduplication a post with n >= 1 comments contributes exactly n
\* rows, one per comment and in order, each carrying the post's fields; a post
\* without comments contributes one row with the empty-comment defaults; the
\* row count is the sum over the posts of max(1, number of comments).
C3_FacebookOneRowPerPair ==
    (platform = "facebook" /\ raw_written) =>
        /\ Len(rows) = RowsBefore(Len(complete_data))
        /\ \A p \in 1..Len(complete_data) :
            LET post == complete_data[p]
                off == RowsBefore(p - 1)
            IN  IF Len(post.comments) >= 1
                THEN \A c \in 1..Len(post.comments) :
                        /\ rows[off + c].post_id = post.post_id
                        /\ rows[off + c].post_url = post.url
                        /\ rows[off + c].comment_id = post.comments[c].comment_id
                        /\ rows[off + c].comment_text = post.comments[c].text
                ELSE /\ rows[off + 1].post_id = post.post_id
                     /\ rows[off + 1].post_url = post.url
                     /\ rows[off + 1].comment_id = ""
                     /\ rows[off + 1].comment_text = ""

\* C3 witness: rows built from a post with two comments and a post with none
C3_Witness ==
    /\ platform = "facebook"
    /\ raw_written
    /\ \E p, q \in 1..Len(complete_data) :
        /\ Len(complete_data[p].comments) = 2
        /\ Len(complete_data[q].comments) = 0
    /\ Len(rows) = 3

\* C4: the reply rows of the Twitter final CSV are as many as the returned
\* 'replies' and its retweeter rows as many as the returned 'retweeters'.
C4_TwitterCountsReconcile ==
    (TwitterWritten /\ result.returned) =>
        /\ NRowsOfType(final_csv, "reply") = result.replies
        /\ NRowsOfType(final_csv, "retweeter") = result.retweeters

\* C5: for a Facebook run that wrote a final CSV, the returned 'posts' is the
\* number of distinct post_id values of the CSV and the returned 'comments'
\* the number of its rows with a non-empty comment_id.
C5_FacebookCountsReconcile ==
    (FacebookWritten /\ result.returned) =>
        /\ result.posts = Cardinality({final_csv[i].post_id :
                                          i \in 1..Len(final_csv)})
        /\ result.comments = Cardinality({i \in 1..Len(final_csv) :
                                             final_csv[i].comment_id # ""})

\* C6: whatever the outcome of an external scrape call, the enclosing scrape
\* operation does not raise.
C6_ScrapeNeverRaises == ~raised

\* invocations of the Instagram actor step in progress
IgInvocations ==
    Cardinality({i \in 1..Len(calls_made) : calls_made[i][1] = ig_site})

C7_Bounded ==
    platform = "instagram" =>
        /\ attempt \in 1..3
        /\ IgInvocations <= 3
        /\ pc = "ig_actor" =>
            /\ IgInvocations = attempt - 1
            /\ attempt > 1 => last_outcome \in {"raise", "none", "iterfail"}
        /\ pc = "ig_actor_wait" => IgInvocations = attempt
        /\ pc = "ig_cont" =>
            /\ IgInvocations = attempt
            /\ last_outcome = "ok" => actor_ret = last_items
            /\ last_outcome = "nodataset" => actor_ret = <<>>
            /\ last_outcome \in {"raise", "none", "iterfail"} =>
                 (attempt = 3 /\ actor_ret = <<>>)

\* C7: _run_apify_actor invokes the actor at most 3 times, goes round again
\* only after an attempt that raised, returns the items of the first attempt
\* that does not raise, returns [] at once for a run without dataset id and []
\* after the third failure, and always returns.
C7_RetryLoopOfThree ==
    /\ []C7_Bounded
    /\ (pc = "ig_actor") ~> (pc = "ig_cont")

\* C7 witness: the helper returned the items of its third attempt
C7_Witness ==
    /\ pc = "ig_cont"
    /\ attempt = 3
    /\ last_outcome = "ok"
    /\ actor_ret # <<>>
    /\ IgInvocations = 3

\* C8: in the Facebook and Twitter pipelines no actor invocation is issued
\* twice, and a scrape that returns has issued each of its invocations once:
\* every posts run input, the comments call of every post with a URL, and the
\* profile, replies and retweeters calls of every tweet ID.
C8_NoRetryOutsideInstagram ==
    platform \in {"facebook", "twitter"} =>
        /\ \A i, j \in 1..Len(calls_made) : i # j => calls_made[i] # calls_made[j]
        /\ (platform = "facebook" /\ result.returned) =>
            /\ \A r \in 1..n_runs : << "fb_posts", r >> \in Range(calls_made)
            /\ \A p \in 1..Len(complete_data) :
                 complete_data[p].url # ""
                     <=> << "fb_comments", p >> \in Range(calls_made)
            /\ Len(calls_made) = n_runs
                 + Cardinality({p \in 1..Len(complete_data) :
                                   complete_data[p].url # ""})
        /\ (platform = "twitter" /\ result.returned) =>
            /\ \A t \in 1..Len(tweet_ids) :
                 { << "tw_profile", t >>, << "tw_replies", t >>,
                   << "tw_retweeters", t >> } \subseteq Range(calls_made)
            /\ Len(calls_made) = 3 * Len(tweet_ids)

\* C8 witness: a Facebook scrape returned after a posts run and a comments
\* call that found nothing
C8_Witness ==
    /\ platform = "facebook"
    /\ result.returned
    /\ result.final_file
    /\ n_runs = 2
    /\ Len(complete_data) = 1
    /\ << "fb_comments", 1 >> \in Range(calls_made)
    /\ complete_data[1].comments = <<>>

TwitterCallOrder == << "tw_profile", "tw_replies", "tw_retweeters" >>

\* C9: at most one external call (actor run or classifier invocation) is
\* outstanding at any time; the Facebook comments calls are issued post after
\* post, and the Twitter calls are issued profile, replies, retweeters for one
\* tweet ID before the next tweet ID.
C9_OneCallAtATime ==
    /\ Cardinality(outstanding) <= 1
    /\ platform = "facebook" =>
        \A i, j \in 1..Len(calls_made) :
            (i < j /\ calls_made[i][1] = calls_made[j][1])
                => calls_made[i][2] < calls_made[j][2]
    /\ platform = "twitter" =>
        \A i \in 1..Len(calls_made) :
            calls_made[i] = << TwitterCallOrder[((i - 1) % 3) + 1],
                               ((i - 1) \div 3) + 1 >>

\* C9 witness: the profile call of the second tweet ID is the only call
\* outstanding, after the three calls of the first
C9_Witness ==
    /\ platform = "twitter"
    /\ outstanding = { << "tw_profile", 2 >> }
    /\ Len(calls_made) = 4

ClassifyStarted == << "classifier", 1 >> \in outstanding \/ sentiment # "none"

\* the table handed to the classifier is built, and deduplicated where the
\* pipeline deduplicates
TableReady ==
    /\ raw_written
    /\ df # <<>>
    /\ platform = "facebook" =>
        \A i, j \in 1..Len(df) :
            i # j => << df[i].post_id, df[i].comment_id >>
                     # << df[j].post_id, df[j].comment_id >>
    /\ (platform = "instagram" /\ ig_op = "post_urls") =>
        \A i, j \in 1..Len(df) :
            i # j => << df[i].post_url, df[i].comment_id >>
                     # << df[j].post_url, df[j].comment_id >>

C20_LimitAtLeastThree ==
    /\ (unit_pc \in {"limit_call", "limit_built"} /\ entry \in {"cli", "app"}) =>
        (max_posts.kind = "int" /\ max_posts.val >= 3)
    /\ unit_pc = "limit_built" =>
        /\ \A i \in 1..Len(actor_runs) :
            actor_runs[i] = IF max_posts.kind = "none" THEN 3
                            ELSE Max(3, max_posts.val)
        /\ Len(actor_runs) =
            IF mode_arg.mode # "group" THEN 2
            ELSE IF mode_arg.group_url_ok THEN 1 ELSE 0

\* C20 witness: a direct call with max_posts = 2 built two run inputs
C20_Witness ==
    /\ unit_pc = "limit_built"
    /\ entry = "direct"
    /\ max_posts = IntVal(2)
    /\ actor_runs = << 3, 3 >>

\* C11: once a pipeline has written its final CSV, no later step of the same
\* run, in the CLI or in the form of app.py, writes to that file again: the
\* final CSV path of a scrape is written at most once.
C11_FinalCsvWrittenOnce == csv_writes <= 1

\* C12: two distinct scrape operations that each write a final CSV never
\* write to the same file path: a scrape of the Instagram menu loop never
\* writes its final CSV to a path an earlier scrape of the loop has written.
C12_DistinctPathPerScrape ==
    [][(platform = "instagram" /\ csv_writes' > csv_writes)
          => FinalPath(ig_op) \notin ig_files]_vars

SentimentWait == {"fb_sentiment_wait", "tw_sentiment_wait", "ig_sentiment_wait"}

\* after a failed sentiment step the final CSV is written with the table as
\* it stands and its path is returned
C16_WrittenAfterFailure ==
    (sentiment = "failed" /\ pc \notin {"fb_write", "tw_write", "ig_write"}) =>
        /\ ~raised
        /\ csv_written
        /\ final_csv = df
        /\ pc # "fb_summary" => (result.returned /\ result.final_file)

\* C16: if sentiment analysis fails in the Facebook, Instagram or Twitter
\* pipeline, the pipeline continues without sentiment data: the final CSV is
\* still written and its path returned, and the rows written are the rows of
\* the table before the sentiment step.
C16_SentimentFailureTolerated ==
    /\ []C16_WrittenAfterFailure
    /\ [][(pc \in SentimentWait)
             => (df' = df /\ rows' = rows /\ raised' = FALSE)]_vars

\* C16 witness: a Twitter scrape whose sentiment step failed wrote its rows
\* and returned the path
C16_Witness ==
    /\ platform = "twitter"
    /\ sentiment = "failed"
    /\ pc = "tw_cli"
    /\ csv_written
    /\ result.final_file
    /\ Len(final_csv) >= 2
    /\ final_csv = rows

\* C19: the table returned by scrape_post_urls holds no two rows with the
\* same (post_url, comment_id), a missing comment_id counting as a value, and
\* every key of the unified records is still in the table.
C19_PostUrlsNoDuplicateKeys ==
    (platform = "instagram" /\ ig_op = "post_urls") =>
        /\ \A i, j \in 1..Len(df) :
            i # j => << df[i].post_url, df[i].comment_id >>
                     # << df[j].post_url, df[j].comment_id >>
        /\ \A j \in 1..Len(rows) : \E i \in 1..Len(df) :
            /\ df[i].post_url = rows[j].post_url
            /\ df[i].comment_id = rows[j].comment_id

\* C19 witness: the same post without comments was returned twice and one of
\* its two rows with a missing comment_id was dropped
C19_Witness ==
    /\ platform = "instagram"
    /\ ig_op = "post_urls"
    /\ pc = "ig_cli"
    /\ Len(rows) = 2
    /\ rows[1].comment_id = None
    /\ rows[2] = rows[1]
    /\ Len(df) = 1

\* the count a cell stands for: its integer, or 0 when missing or no number
CountOf(cell) == IF cell.kind = "int" THEN cell.val ELSE 0

\* C13: after _add_derived_columns post_engagement_total is reactions +
\* comments + shares, positive_reactions is like + love + haha + wow + care,
\* negative_reactions is sad + angry, and sentiment_ratio is
\* positive_reactions / post_total_reactions when post_total_reactions > 0 and
\* 0 otherwise, never a division by zero, missing or non-numeric counts
\* counting as 0.
C13_DerivedColumns ==
    unit_pc = "derive_done" =>
        LET reactions == CountOf(fb_row.post_total_reactions)
            positive == CountOf(fb_row.emoji_like) + CountOf(fb_row.emoji_love)
                        + CountOf(fb_row.emoji_haha) + CountOf(fb_row.emoji_wow)
                        + CountOf(fb_row.emoji_care)
        IN  /\ derived.post_engagement_total =
                  reactions + CountOf(fb_row.post_total_comments)
                  + CountOf(fb_row.post_total_shares)
            /\ derived.positive_reactions = positive
            /\ derived.negative_reactions =
                  CountOf(fb_row.emoji_sad) + CountOf(fb_row.emoji_angry)
            /\ derived.sentiment_ratio.den # 0
            /\ IF reactions > 0
               THEN derived.sentiment_ratio = [num |-> positive, den |-> reactions]
               ELSE derived.sentiment_ratio = [num |-> 0, den |-> 1]

\* C13 witness: a row without reactions total, with positive reactions and a
\* non-numeric negative count, got its derived columns
C13_Witness ==
    /\ unit_pc = "derive_done"
    /\ fb_row.post_total_reactions = Missing
    /\ fb_row.emoji_sad = NonNumeric
    /\ derived.positive_reactions = 3
    /\ derived.sentiment_ratio = [num |-> 0, den |-> 1]

ThreeClasses == {"POSITIVE", "NEUTRAL", "NEGATIVE"}

\* C14: every sentiment label the analyzers write (post/comment,
\* caption/comment, tweet/interaction label columns, and the results of
\* analyze_text_batch) is one of POSITIVE, NEUTRAL, NEGATIVE.
C14_LabelsInThreeClasses ==
    unit_pc = "sent_done" =>
        /\ \A i \in 1..Len(label_cols.first) :
            label_cols.first[i].label \in ThreeClasses
        /\ \A i \in 1..Len(label_cols.second) :
            label_cols.second[i].label \in ThreeClasses
        /\ \A i \in 1..Len(results) : results[i].label \in ThreeClasses

\* texts that are missing, blank after stripping, or the string 'nan'
BlankTexts == { None, "", " ", "nan" }

\* C15: the loop appends exactly one result per text, in order; a text that
\* is missing, blank after stripping or 'nan' gets NEUTRAL with score 0.0 and
\* the classifier is not invoked on it; every other text is handed to the
\* classifier and gets the classifier's result, or NEUTRAL with score 0.0
\* when the classifier raised, and the texts after it are still processed.
C15_BatchHandlesEmptyAndErrors ==
    analyzer # "none" =>
        /\ Len(results) <= Len(texts)
        /\ \A i \in 1..Len(results) :
            IF texts[i] \in BlankTexts
            THEN results[i] = [label |-> "NEUTRAL", score |-> 0]
            ELSE results[i] \in { [label |-> "NEUTRAL", score |-> 0],
                                  Classify(texts[i]) }
        /\ Len(invoked) = Cardinality({i \in 1..Len(results) :
                                          texts[i] \notin BlankTexts})
        /\ \A k \in 1..Len(invoked) : invoked[k] \notin BlankTexts
        /\ (unit_pc = "sent_done" /\ analyzer = "batch") =>
                Len(results) = Len(texts)
        /\ (unit_pc = "sent_done" /\ analyzer \in {"facebook", "instagram"}) =>
                /\ Len(label_cols.first) = Len(sdf)
                /\ Len(label_cols.second) = Len(sdf)
                /\ label_cols.second = results

\* C15 witness: analyze_text_batch returned after the classifier raised on
\* the first text and classified the second
C15_Witness ==
    /\ unit_pc = "sent_done"
    /\ analyzer = "batch"
    /\ texts = << "bad", "good" >>
    /\ invoked = << "bad", "good" >>
    /\ results[1] = [label |-> "NEUTRAL", score |-> 0]
    /\ results[2] = Classify("good")

\* C17: in analyze_twitter_data the classifier is invoked for the
\* interaction text of reply rows only, each reply row gets the result
\* computed from its own text, and every other row ends with
\* interaction_sentiment_label NEUTRAL and interaction_sentiment_score 0.0.
C17_OnlyRepliesAnalyzed ==
    (analyzer = "twitter" /\ unit_pc \in {"sent_second", "sent_done"}) =>
        /\ \A k \in 1..Len(invoked) :
            \E i \in 1..Len(sdf) :
                /\ sdf[i].interaction_type = "reply"
                /\ sdf[i].second = invoked[k]
        /\ Len(invoked) <= Cardinality({i \in 1..Len(sdf) :
                                           sdf[i].interaction_type = "reply"})
        /\ unit_pc = "sent_done" =>
            /\ Len(label_cols.second) = Len(sdf)
            /\ \A i \in 1..Len(sdf) :
                IF sdf[i].interaction_type = "reply"
                THEN IF sdf[i].second \in BlankTexts
                     THEN label_cols.second[i] = [label |-> "NEUTRAL", score |-> 0]
                     ELSE label_cols.second[i] \in
                              { [label |-> "NEUTRAL", score |-> 0],
                                Classify(sdf[i].second) }
                ELSE label_cols.second[i] = [label |-> "NEUTRAL", score |-> 0]

\* C17 witness: a retweeter row with text ahead of a reply row; the reply
\* row carries the result of its own text
C17_Witness ==
    /\ analyzer = "twitter"
    /\ unit_pc = "sent_done"
    /\ Len(sdf) = 2
    /\ sdf[1].interaction_type = "retweeter"
    /\ sdf[1].second = "rt"
    /\ sdf[2].interaction_type = "reply"
    /\ sdf[2].second = "bad"
    /\ label_cols.second = << [label |-> "NEUTRAL", score |-> 0], Classify("bad") >>

\* C18: without a file, or with a file that cannot be loaded, the entry
\* point searches the final directory and loads the latest file; when there
\* is none it returns without the visualization menu; the menu is only ever
\* presented while a table is loaded.
C18_MenuOnlyWithTable ==
    /\ menu_presented => dashboard_df
    /\ (unit_pc = "dash_returned" /\ latest_file = "none" /\ ~dashboard_df) =>
            ~menu_presented

\* C21: when the posts step of scrape_from_url returns no posts, the
\* operation returns raw_file None, final_file None, posts 0, comments 0 and
\* cost 0.0, makes no comments call and writes no raw or final file.
C21_NoPostsEmptyResult ==
    (platform = "facebook" /\ posts = <<>>) =>
        /\ \A k \in 1..Len(calls_made) : calls_made[k][1] # "fb_comments"
        /\ ~raw_written
        /\ ~csv_written
        /\ csv_writes = 0
        /\ pc \notin {"menu", "fb_posts", "fb_posts_wait"} =>
                result = [returned |-> TRUE, raw_file |-> FALSE,
                          final_file |-> FALSE, posts |-> 0, comments |-> 0,
                          cost |-> 0]

\* C21 witness: both search runs were made, no post came back, and the
\* operation has returned
C21_Witness ==
    /\ platform = "facebook"
    /\ pc = "fb_cli"
    /\ posts = <<>>
    /\ Len(calls_made) = 2
    /\ result.returned
    /\ result.posts = 0

\* the parts of C22 about a run of scrape_from_user that has ended
TwitterEnded == platform = "twitter" /\ pc \in {"tw_cli", "done"}

\* C22: scrape_from_user with an empty list of tweet IDs returns raw_file
\* None, final_file None and all counts 0 without invoking any actor and
\* without writing any file; with a non-empty list it processes every tweet
\* ID in the given order and returns 'tweets' equal to the number of tweet
\* IDs given, whatever the external calls return.
C22_AllTweetIdsProcessed ==
    /\ (platform = "twitter" /\ tweet_ids = <<>>) =>
            /\ calls_made = <<>>
            /\ ~raw_written
            /\ ~csv_written
            /\ pc # "menu" => result = [returned |-> TRUE, raw_file |-> FALSE,
                                        final_file |-> FALSE, tweets |-> 0,
                                        replies |-> 0, retweeters |-> 0]
    /\ (TwitterEnded /\ tweet_ids # <<>>) =>
            /\ result.returned
            /\ result.tweets = Len(tweet_ids)
            /\ Len(all_data) = Len(tweet_ids)
            /\ \A i \in 1..Len(all_data) : all_data[i].tweet_id = tweet_ids[i]

\* position in all_posts of the last post with the given post_id
LastOccurrence(id) ==
    CHOOSE k \in 1..Len(all_posts) :
        /\ all_posts[k].post_id = id
        /\ \A j \in (k + 1)..Len(all_posts) : all_posts[j].post_id # id

\* C23: the list returned by _scrape_posts_with_reactions holds no two posts
\* with the same post_id, whatever the search runs returned, and a post_id
\* returned more than once keeps the data of its last occurrence.
C23_UniquePostsKeepLast ==
    pc = "fb_unique_returned" =>
        /\ \A i, j \in 1..Len(posts) :
            posts[i].post_id = posts[j].post_id => i = j
        /\ { posts[i].post_id : i \in 1..Len(posts) }
               = { all_posts[k].post_id : k \in 1..Len(all_posts) }
        /\ \A i \in 1..Len(posts) :
            posts[i] = all_posts[LastOccurrence(posts[i].post_id)]

\* C23 witness: p1 came back twice with different data, around another post
C23_Witness ==
    /\ pc = "fb_unique_returned"
    /\ Len(all_posts) = 3
    /\ all_posts[1].post_id = "p1"
    /\ all_posts[2].post_id = "p2"
    /\ all_posts[3].post_id = "p1"
    /\ all_posts[1] # all_posts[3]
    /\ Len(posts) = 2
    /\ posts[1] = all_posts[3]

\* C24: the comments limit sent by _scrape_comments is max_comments when
\* max_comments is a positive integer and 100 otherwise; a maximum of 0,
\* which the clamp of the CLI and the minimum of the form both let through,
\* results in a request for 100 comments; no comments call is made for a
\* post whose URL is empty.
C24_CommentsLimit ==
    /\ unit_pc = "comments_requested" =>
        /\ comments_request.sent
        /\ post_url \notin { None, "", " " }
        /\ comments_request.resultsLimit =
              IF max_comments.kind = "int" /\ max_comments.val >= 1
              THEN max_comments.val
              ELSE 100
    /\ (/\ unit_pc \in {"comments_call", "comments_requested", "comments_skipped"}
        /\ comments_entry \in {"cli", "app"}
        /\ max_comments_input = IntVal(0)) =>
            /\ max_comments = IntVal(0)
            /\ unit_pc = "comments_requested" =>
                    comments_request.resultsLimit = 100
    /\ (unit_pc \in {"comments_requested", "comments_skipped"}
        /\ post_url \in { None, "", " " }) =>
            /\ unit_pc = "comments_skipped"
            /\ ~comments_request.sent

\* C24 witness: 0 typed at the prompt of the CLI, and a request for 100
\* comments of a post with a URL
C24_Witness ==
    /\ unit_pc = "comments_requested"
    /\ comments_entry = "cli"
    /\ max_comments_input = IntVal(0)
    /\ max_comments = IntVal(0)
    /\ post_url = "u1"
    /\ comments_request.resultsLimit = 100

\* the count of a reaction in the row, after the coercion to integers
ReactionCount(emotion) ==
    CASE emotion = "like" -> CountOf(fb_row.emoji_like)
      [] emotion = "love" -> CountOf(fb_row.emoji_love)
      [] emotion = "haha" -> CountOf(fb_row.emoji_haha)
      [] emotion = "wow" -> CountOf(fb_row.emoji_wow)
      [] emotion = "sad" -> CountOf(fb_row.emoji_sad)
      [] emotion = "angry" -> CountOf(fb_row.emoji_angry)
      [] emotion = "care" -> CountOf(fb_row.emoji_care)

\* the seven reactions in the fixed order that breaks ties
ReactionOrder == << "like", "love", "haha", "wow", "sad", "angry", "care" >>

\* C25: dominant_emotion names one of the seven emoji reactions whose count
\* is maximal in the row; ties are broken by the order like, love, haha, wow,
\* sad, angry, care, so a row whose seven counts are all 0 gets 'like'.
C25_DominantEmotion ==
    unit_pc = "derive_done" =>
        \E i \in 1..7 :
            /\ derived.dominant_emotion = ReactionOrder[i]
            /\ \A j \in 1..7 :
                ReactionCount(ReactionOrder[j]) <= ReactionCount(ReactionOrder[i])
            /\ \A j \in 1..7 :
                (ReactionCount(ReactionOrder[j]) = ReactionCount(ReactionOrder[i]))
                    => i <= j
            /\ (\A j \in 1..7 : ReactionCount(ReactionOrder[j]) = 0) => i = 1

\* C25 witness: love and care tie at the largest count of the row and the
\* label is love
C25_Witness ==
    /\ unit_pc = "derive_done"
    /\ ReactionCount("like") = 0
    /\ ReactionCount("love") = 1
    /\ ReactionCount("care") = 1
    /\ ReactionCount("sad") = 0
    /\ ReactionCount("angry") = 0
    /\ derived.dominant_emotion = "love"

\* C25 witness of the row without reactions
C25_WitnessAllZero ==
    /\ unit_pc = "derive_done"
    /\ \A j \in 1..7 : ReactionCount(ReactionOrder[j]) = 0
    /\ derived.dominant_emotion = "like"

====
